---- MODULE Spec2Model ----
(***************************************************************************)
(* A model of the nand2tetris tool chain of this repository:               *)
(*   projects/08/VMTranslator.py  (Parser, CodeWriter, main)               *)
(*   projects/06/assembler.py     (symbol resolution)                      *)
(* together with the Hack CPU that executes the assembled program, so that *)
(* statements about what the emitted assembly does can be checked.         *)
(*                                                                         *)
(* Text is modelled as a sequence of atoms.  An atom is a TLA+ string that *)
(* the program never splits: one character where the code looks at         *)
(* characters (file names, digits, "@", "(", ")", "=", ";", " "), a whole  *)
(* word elsewhere ("push", "constant", "M+1", "COND_JUMP").  Formatting    *)
(* (f-strings) is concatenation, int() and str() are ToInt and ToStr.      *)
(***************************************************************************)
EXTENDS Integers, Sequences, FiniteSets, TLC

VARIABLES
    \* command line and input files (fixed after Init)
    DEBUG,          \* the global DEBUG flag
    nobootstrap,    \* args.nobootstrap: "None", "True" or "False"
    dir,            \* the directory listing: a sequence of [name, lines]
    ram0,           \* the RAM the test harness prepared before the run
    \* Parser
    file_data,      \* Parser.file_data: sequence of FileLines
    lines,          \* Parser.lines (cleaned lines of the file in use)
    line_index,     \* Parser.line_index
    \* CodeWriter
    labelCounter,   \* CodeWriter.labelCounter
    file_name,      \* CodeWriter.file_name
    out,            \* the lines written to the .asm file so far
    \* main
    pc,             \* position of main / of the tool chain
    file_index,     \* index in file_data of the file being translated
    cmds,           \* history: one record per translated command
    \* assembler output and the Hack CPU
    rom,            \* the lines the assembler printed: 16-bit words
    A, D, PC,       \* CPU registers
    ram,            \* data memory (sparse: absent cells hold 0)
    steps,          \* number of instructions executed
    cur,            \* history: the command block being executed
    done,           \* history: the completed command blocks, oldest first
    \* projects/10: CompilationEngine
    curr_line,      \* Tokenizer.curr_line
    curr_char,      \* Tokenizer.curr_char
    tokens,         \* the tokens of tokenize(); CompilationEngine.tokens
    current_token_index,  \* CompilationEngine.current_token_index
    stack,          \* the engine's method calls in progress
    exc,            \* the exception being raised, or "none"
    parseTree       \* CompilationEngine.parseTree

vars == <<DEBUG, nobootstrap, dir, ram0, file_data, lines, line_index,
          labelCounter, file_name, out, pc, file_index, cmds,
          rom, A, D, PC, ram, steps, cur, done, tokens, current_token_index,
          stack, exc, parseTree, curr_line, curr_char>>

----------------------------------------------------------------------------
(* Text helpers *)

DigitCh == <<"0", "1", "2", "3", "4", "5", "6", "7", "8", "9">>

Digits == {DigitCh[i] : i \in 1..10}

DigitVal(c) == (CHOOSE i \in 1..10 : DigitCh[i] = c) - 1

\* str(n) of a non-negative integer, as used by f"{n}"
RECURSIVE ToStr(_)
ToStr(n) ==
    IF n < 10 THEN <<DigitCh[n + 1]>>
    ELSE ToStr(n \div 10) \o <<DigitCh[(n % 10) + 1]>>

\* str.isnumeric()
IsNumeric(s) == Len(s) > 0 /\ \A i \in 1..Len(s) : s[i] \in Digits

\* int(s) of a numeric text
RECURSIVE ToInt(_)
ToInt(s) ==
    IF Len(s) = 0 THEN 0
    ELSE 10 * ToInt(SubSeq(s, 1, Len(s) - 1)) + DigitVal(s[Len(s)])

\* "x in s" for an atom x
Has(s, x) == \E i \in 1..Len(s) : s[i] = x

\* index of the first occurrence of atom x in s (0 when absent)
FirstAt(s, x) ==
    IF Has(s, x) THEN CHOOSE i \in 1..Len(s) :
                          s[i] = x /\ \A j \in 1..(i - 1) : s[j] # x
    ELSE 0

\* str.lstrip(chars) / str.rstrip(chars) / str.strip(chars)
RECURSIVE LStrip(_, _)
LStrip(s, chars) ==
    IF Len(s) > 0 /\ s[1] \in chars THEN LStrip(Tail(s), chars) ELSE s

RECURSIVE RStrip(_, _)
RStrip(s, chars) ==
    IF Len(s) > 0 /\ s[Len(s)] \in chars
    THEN RStrip(SubSeq(s, 1, Len(s) - 1), chars) ELSE s

Strip(s, chars) == RStrip(LStrip(s, chars), chars)

\* str.split(sep) for a one-atom separator
RECURSIVE Split(_, _)
Split(s, sep) ==
    IF ~Has(s, sep) THEN <<s>>
    ELSE LET i == FirstAt(s, sep)
         IN  <<SubSeq(s, 1, i - 1)>> \o Split(SubSeq(s, i + 1, Len(s)), sep)

\* str.replace(x, "") for an atom x
RECURSIVE Remove(_, _)
Remove(s, x) ==
    IF Len(s) = 0 THEN <<>>
    ELSE (IF s[1] = x THEN <<>> ELSE <<s[1]>>) \o Remove(Tail(s), x)

\* str.endswith(suffix)
EndsWith(s, suffix) ==
    /\ Len(s) >= Len(suffix)
    /\ SubSeq(s, Len(s) - Len(suffix) + 1, Len(s)) = suffix

Whitespace == {" ", "\n"}

----------------------------------------------------------------------------
(* 16-bit words *)

WordSize == 65536

W(n) == n % WordSize

\* the signed value of a word
Signed(w) == IF w >= 32768 THEN w - WordSize ELSE w

RECURSIVE BitAnd(_, _, _)
BitAnd(x, y, bits) ==
    IF bits = 0 THEN 0
    ELSE ((x % 2) * (y % 2)) + 2 * BitAnd(x \div 2, y \div 2, bits - 1)

And16(x, y) == BitAnd(x, y, 16)

Not16(x) == (WordSize - 1) - x

Or16(x, y) == Not16(And16(Not16(x), Not16(y)))

----------------------------------------------------------------------------
(* CodeWriter: the assembly text of each VM command.  A line of assembly   *)
(* is a text: "@SP" is <<"@", "SP">>, "M=M+1" is <<"M", "=", "M+1">>,      *)
(* "0;JMP" is <<"0", ";", "JMP">>, "(X)" is <<"(", "X", ")">>.             *)

At(sym) == <<"@">> \o sym

Lbl(sym) == <<"(">> \o sym \o <<")">>

\* the "if DEBUG: asm.append(f"// ...")" line that opens every block
Comment(text) == IF DEBUG THEN << <<"//", " ">> \o text >> ELSE <<>>

\* CodeWriter.jumpLabel / CodeWriter.endLabel
jumpLabel(lc) == <<"COND_JUMP", ".">> \o ToStr(lc)

endLabel(lc) == <<"COND_JUMP_END", ".">> \o ToStr(lc)

ArithmeticCommandTypes ==
    {"add", "sub", "neg", "eq", "gt", "lt", "and", "or", "not"}

SegmentTypes ==
    {"local", "argument", "this", "that", "constant", "static", "temp",
     "pointer"}

\* getArithmeticAsm with the operands of sub exchanged (top minus second)
getArithmeticAsm_SubSwapped(command, lc) ==
    LET pop1 == << <<"@", "SP">>, <<"A", "=", "M-1">> >>
        pop2 == << <<"D", "=", "M">>, <<"A", "=", "A-1">> >>
        adjust == << <<"@", "SP">>, <<"M", "=", "M-1">> >>
    IN  IF command = "not" THEN pop1 \o << <<"M", "=", "!M">> >>
        ELSE IF command = "neg" THEN pop1 \o << <<"M", "=", "-M">> >>
        ELSE pop1 \o pop2 \o
             (CASE command = "and" -> << <<"M", "=", "D&M">> >>
                [] command = "or"  -> << <<"M", "=", "D|M">> >>
                [] command = "add" -> << <<"M", "=", "D+M">> >>
                [] OTHER -> << <<"M", "=", "D-M">> >>)
             \o adjust

\* CodeWriter.getArithmeticAsm
getArithmeticAsm(command, lc) ==
    LET pop1 == << <<"@", "SP">>, <<"A", "=", "M-1">> >>
        pop2 == << <<"D", "=", "M">>, <<"A", "=", "A-1">> >>
        adjust == << <<"@", "SP">>, <<"M", "=", "M-1">> >>
        jump == IF command = "lt" THEN <<"D", ";", "JLT">>
                ELSE IF command = "gt" THEN <<"D", ";", "JGT">>
                ELSE <<"D", ";", "JEQ">>
        compare ==
            << <<"D", "=", "M-D">>,
               At(jumpLabel(lc)),
               jump,
               <<"@", "SP">>,
               <<"A", "=", "M-1">>,
               <<"A", "=", "A-1">>,
               <<"M", "=", "0">>,
               At(endLabel(lc)),
               <<"0", ";", "JMP">>,
               Lbl(jumpLabel(lc)),
               <<"@", "SP">>,
               <<"A", "=", "M-1">>,
               <<"A", "=", "A-1">>,
               <<"M", "=", "-1">>,
               Lbl(endLabel(lc)) >>
    IN  IF command = "not" THEN pop1 \o << <<"M", "=", "!M">> >>
        ELSE IF command = "neg" THEN pop1 \o << <<"M", "=", "-M">> >>
        ELSE pop1 \o pop2 \o
             (CASE command = "and" -> << <<"M", "=", "D&M">> >>
                [] command = "or"  -> << <<"M", "=", "D|M">> >>
                [] command = "add" -> << <<"M", "=", "D+M">> >>
                [] command = "sub" -> << <<"M", "=", "M-D">> >>
                [] command \in {"lt", "gt", "eq"} -> compare
                [] OTHER -> <<>>)
             \o adjust

\* CodeWriter.writeArithmetic
writeArithmetic(command, lc) ==
    Comment(<<command>>) \o getArithmeticAsm(command, lc)

\* the segment pointer symbol of local, argument, this, that
SegmentPointer(segment) ==
    CASE segment = "local"    -> "LCL"
      [] segment = "argument" -> "ARG"
      [] segment = "this"     -> "THIS"
      [] segment = "that"     -> "THAT"

\* PushD that forgets "@SP / M=M+1"
PushD_NoIncrement ==
    << <<"@", "SP">>, <<"A", "=", "M">>, <<"M", "=", "D">> >>

\* the RAM[SP] = D; SP++ tail of CodeWriter.getPushAsm
PushD ==
    << <<"@", "SP">>, <<"A", "=", "M">>, <<"M", "=", "D">>,
       <<"@", "SP">>, <<"M", "=", "M+1">> >>

\* getPushAsm whose "push pointer" pushes the word THIS / THAT points to
getPushAsm_PointerDeref(segment, index, fname) ==
    (CASE segment = "constant" ->
            << At(ToStr(index)), <<"D", "=", "A">> >>
       [] segment = "static" ->
            << At(fname \o <<".">> \o ToStr(index)), <<"D", "=", "M">> >>
       [] segment \in {"local", "argument", "this", "that"} ->
            << At(ToStr(index)), <<"D", "=", "A">>,
               <<"@", SegmentPointer(segment)>>,
               <<"A", "=", "M">>,
               <<"A", "=", "D+A">>,
               <<"D", "=", "M">> >>
       [] segment = "temp" ->
            << At(ToStr(index)), <<"D", "=", "A">>,
               <<"@", "5">>,
               <<"A", "=", "D+A">>,
               <<"D", "=", "M">> >>
       [] segment = "pointer" ->
            << <<"@", IF index = 0 THEN "THIS" ELSE "THAT">>,
               <<"A", "=", "M">>,
               <<"D", "=", "M">> >>)
    \o PushD

\* CodeWriter.getPushAsm
getPushAsm(segment, index, fname) ==
    (CASE segment = "constant" ->
            << At(ToStr(index)), <<"D", "=", "A">> >>
       [] segment = "static" ->
            << At(fname \o <<".">> \o ToStr(index)), <<"D", "=", "M">> >>
       [] segment \in {"local", "argument", "this", "that"} ->
            << At(ToStr(index)), <<"D", "=", "A">>,
               <<"@", SegmentPointer(segment)>>,
               <<"A", "=", "M">>,
               <<"A", "=", "D+A">>,
               <<"D", "=", "M">> >>
       [] segment = "temp" ->
            << At(ToStr(index)), <<"D", "=", "A">>,
               <<"@", "5">>,
               <<"A", "=", "D+A">>,
               <<"D", "=", "M">> >>
       [] segment = "pointer" ->
            << <<"@", IF index = 0 THEN "THIS" ELSE "THAT">>,
               <<"A", "=", "M">>,
               <<"D", "=", "A">> >>)
    \o PushD

\* getPopAsm that reads the stack value first and keeps it in R13 while
\* it computes the address
getPopAsm_ValueFirst(segment, index, fname) ==
    LET base == IF segment = "temp" THEN << <<"@", "5">>, <<"D", "=", "A">> >>
                ELSE IF segment = "pointer"
                THEN << <<"@", IF index = 0 THEN "THIS" ELSE "THAT">>,
                        <<"D", "=", "A">> >>
                ELSE << <<"@", SegmentPointer(segment)>>, <<"D", "=", "M">> >>
        offset == IF segment = "pointer" THEN <<>>
                  ELSE << At(ToStr(index)), <<"D", "=", "D+A">> >>
    IN  IF segment = "static"
        THEN << <<"@", "SP">>, <<"A", "=", "M-1">>, <<"D", "=", "M">>,
                At(fname \o <<".">> \o ToStr(index)),
                <<"M", "=", "D">>,
                <<"@", "SP">>, <<"M", "=", "M-1">> >>
        ELSE << <<"@", "SP">>, <<"A", "M", "=", "M-1">>, <<"D", "=", "M">>,
                <<"@", "R13">>, <<"M", "=", "D">> >>
             \o base \o offset
             \o << <<"@", "R14">>, <<"M", "=", "D">>,
                   <<"@", "R13">>, <<"D", "=", "M">>,
                   <<"@", "R14">>, <<"A", "=", "M">>, <<"M", "=", "D">> >>

\* CodeWriter.getPopAsm; "constant" raises and is handled by the caller
getPopAsm(segment, index, fname) ==
    LET saveAddr == << <<"@", "R13">>, <<"M", "=", "D">> >>
        store == << <<"@", "SP">>, <<"A", "=", "M-1">>, <<"D", "=", "M">>,
                    <<"@", "R13">>, <<"A", "=", "M">>, <<"M", "=", "D">>,
                    <<"@", "SP">>, <<"M", "=", "M-1">> >>
    IN  CASE segment = "static" ->
               << <<"@", "SP">>, <<"A", "=", "M-1">>, <<"D", "=", "M">>,
                  At(fname \o <<".">> \o ToStr(index)),
                  <<"M", "=", "D">>,
                  <<"@", "SP">>, <<"M", "=", "M-1">> >>
          [] segment \in {"local", "argument", "this", "that"} ->
               << At(ToStr(index)), <<"D", "=", "A">>,
                  <<"@", SegmentPointer(segment)>>,
                  <<"A", "=", "M">>,
                  <<"D", "=", "D+A">> >>
               \o saveAddr \o store
          [] segment = "temp" ->
               << At(ToStr(index)), <<"D", "=", "A">>,
                  <<"@", "5">>,
                  <<"D", "=", "D+A">> >>
               \o saveAddr \o store
          [] segment = "pointer" ->
               << <<"@", IF index = 0 THEN "THIS" ELSE "THAT">>,
                  <<"D", "=", "A">> >>
               \o saveAddr \o store
          [] OTHER -> store

\* CodeWriter.writePushPop
writePushPop(command, segment, index, fname) ==
    Comment(<<command, " ", segment, " ">> \o ToStr(index))
    \o (IF command = "push" THEN getPushAsm(segment, index, fname)
        ELSE getPopAsm(segment, index, fname))

\* CodeWriter.writeLabel
writeLabel(label) ==
    Comment(<<"label", " ">> \o label) \o << Lbl(label) >>

\* CodeWriter.writeGoto
writeGoto(label) ==
    Comment(<<"goto", " ">> \o label)
    \o << At(label), <<"0", ";", "JMP">> >>

\* writeIfGoto that reads the top of the stack without popping it
writeIfGoto_NoPop(label) ==
    Comment(<<"if-goto", " ">> \o label)
    \o << <<"@", "SP">>, <<"A", "=", "M-1">>, <<"D", "=", "M">>,
          At(label), <<"D", ";", "JNE">> >>

\* CodeWriter.writeIfGoto
writeIfGoto(label) ==
    Comment(<<"if-goto", " ">> \o label)
    \o << <<"@", "SP">>, <<"A", "=", "M-1">>, <<"D", "=", "M">>,
          <<"@", "SP">>, <<"M", "=", "M-1">>,
          At(label), <<"D", ";", "JNE">> >>

\* "for _ in range(n): asm.extend(...)"
RECURSIVE Repeat(_, _)
Repeat(block, n) == IF n <= 0 THEN <<>> ELSE block \o Repeat(block, n - 1)

\* CodeWriter.writeFunction
writeFunction(function_name, nArgs, fname) ==
    Comment(<<"function", " ">> \o function_name \o <<" ">> \o ToStr(nArgs))
    \o << Lbl(function_name) >>
    \o Repeat(getPushAsm("constant", 0, fname), nArgs)

\* SaveFrame that saves THAT before THIS
SaveFrame_ThatFirst(returnAddrLabel) ==
    LET push == << <<"@", "SP">>, <<"A", "=", "M">>, <<"M", "=", "D">>,
                   <<"@", "SP">>, <<"M", "=", "M+1">> >>
        save(segment) == << <<"@", segment>>, <<"D", "=", "M">> >> \o push
    IN  << At(returnAddrLabel), <<"D", "=", "A">> >> \o push
        \o save("LCL") \o save("ARG") \o save("THAT") \o save("THIS")

\* the five pushes of CodeWriter.writeCall: return address, then the
\* caller's LCL, ARG, THIS, THAT
SaveFrame(returnAddrLabel) ==
    LET push == << <<"@", "SP">>, <<"A", "=", "M">>, <<"M", "=", "D">>,
                   <<"@", "SP">>, <<"M", "=", "M+1">> >>
        save(segment) == << <<"@", segment>>, <<"D", "=", "M">> >> \o push
    IN  << At(returnAddrLabel), <<"D", "=", "A">> >> \o push
        \o save("LCL") \o save("ARG") \o save("THIS") \o save("THAT")

\* CodeWriter.writeCall
writeCall(function_name, nArgs, lc) ==
    LET returnAddrLabel == function_name \o <<".", "RETURN", ".">> \o ToStr(lc)
    IN  Comment(<<"call", " ">> \o function_name \o <<" ">> \o ToStr(nArgs))
        \o SaveFrame(returnAddrLabel)
        \o << <<"@", "SP">>, <<"D", "=", "M">>,
              <<"@", "5">>, <<"D", "=", "D-A">>,
              At(ToStr(nArgs)), <<"D", "=", "D-A">>,
              <<"@", "ARG">>, <<"M", "=", "D">>,
              <<"@", "SP">>, <<"D", "=", "M">>,
              <<"@", "LCL">>, <<"M", "=", "D">>,
              At(function_name), <<"0", ";", "JMP">>,
              Lbl(returnAddrLabel) >>

\* the "Set THAT, THIS, ARG, LOCAL = endFrame - n" loop of writeReturn
RestoreSegment(segment, n) ==
    << <<"@", "endframe">>, <<"D", "=", "M">>,
       At(ToStr(n)), <<"A", "=", "D-A">>, <<"D", "=", "M">>,
       <<"@", segment>>, <<"M", "=", "D">> >>

\* retAddr = *(endFrame - 5)
SaveRetAddr ==
    << <<"@", "endframe">>, <<"D", "=", "M">>,
       <<"@", "5">>, <<"D", "=", "D-A">>, <<"A", "=", "D">>,
       <<"D", "=", "M">>,
       <<"@", "retAddr">>, <<"M", "=", "D">> >>

\* *ARG = pop()
PopToArg ==
    << <<"@", "SP">>, <<"A", "=", "M-1">>, <<"D", "=", "M">>,
       <<"@", "ARG">>, <<"A", "=", "M">>, <<"M", "=", "D">>,
       <<"@", "SP">>, <<"M", "=", "M-1">> >>

\* writeReturn that fetches the return address only after *ARG = pop()
writeReturn_LateRetAddr ==
    Comment(<<"return">>)
    \o << <<"@", "LCL">>, <<"D", "=", "M">>,
          <<"@", "endframe">>, <<"M", "=", "D">> >>
    \o PopToArg
    \o SaveRetAddr
    \o << <<"@", "ARG">>, <<"D", "=", "M+1">>,
          <<"@", "SP">>, <<"M", "=", "D">> >>
    \o RestoreSegment("THAT", 1) \o RestoreSegment("THIS", 2)
    \o RestoreSegment("ARG", 3) \o RestoreSegment("LCL", 4)
    \o << <<"@", "retAddr">>, <<"A", "=", "M">>, <<"0", ";", "JMP">> >>

\* CodeWriter.writeReturn
writeReturn ==
    Comment(<<"return">>)
    \o << <<"@", "LCL">>, <<"D", "=", "M">>,
          <<"@", "endframe">>, <<"M", "=", "D">> >>
    \o SaveRetAddr
    \o PopToArg
    \o << <<"@", "ARG">>, <<"D", "=", "M+1">>,
          <<"@", "SP">>, <<"M", "=", "D">> >>
    \o RestoreSegment("THAT", 1) \o RestoreSegment("THIS", 2)
    \o RestoreSegment("ARG", 3) \o RestoreSegment("LCL", 4)
    \o << <<"@", "retAddr">>, <<"A", "=", "M">>, <<"0", ";", "JMP">> >>

\* CodeWriter.bootstrap
bootstrap(lc) ==
    Comment(<<"bootstrapping", " ", "code">>)
    \o << <<"@", "2", "5", "6">>, <<"D", "=", "A">>,
          <<"@", "SP">>, <<"M", "=", "D">> >>
    \o writeCall(<<"Sys", ".", "init">>, 0, lc)

----------------------------------------------------------------------------
(* Parser *)

\* Parser.trimLine
trimLine(line) ==
    LET lstripped == LStrip(line, Whitespace)
        code == IF Has(lstripped, "//")
                THEN SubSeq(lstripped, 1, FirstAt(lstripped, "//") - 1)
                ELSE lstripped
    IN  IF Len(lstripped) > 0 /\ lstripped[1] = "//" THEN <<"\n">>
        ELSE RStrip(code, Whitespace)

\* Parser.cleanLines
RECURSIVE cleanLines(_)
cleanLines(ls) ==
    IF Len(ls) = 0 THEN <<>>
    ELSE (IF trimLine(ls[1]) = <<"\n">> THEN <<>> ELSE <<trimLine(ls[1])>>)
         \o cleanLines(Tail(ls))

\* the FileLines that Parser.__init__ keeps for one file
FileLines(file) ==
    [filename |-> Strip(file.name, {".", "v", "m"}), lines |-> file.lines]

\* Parser.__init__: the files loaded from file_location
RECURSIVE LoadDir(_)
LoadDir(files) ==
    IF Len(files) = 0 THEN <<>>
    ELSE (IF EndsWith(files[1].name, <<".", "v", "m">>)
          THEN <<FileLines(files[1])>> ELSE <<>>)
         \o LoadDir(Tail(files))

LoadFiles(d) ==
    IF d.isdir THEN LoadDir(d.files) ELSE <<FileLines(d.files[1])>>

\* Parser.hasMoreLines
hasMoreLines(ls, idx) == ~(idx >= Len(ls) - 1)

\* the fields of the current line: curr_line.split(" ")
Fields(line) == Split(line, " ")

CommandWords ==
    {"pop", "push", "return", "label", "goto", "if-goto", "function", "call"}

\* Parser.commandType; "raise" when the exception is raised
commandType(line) ==
    LET command == Fields(line)[1]
    IN  IF Len(command) # 1 THEN "raise"
        ELSE IF command[1] \in CommandWords THEN command[1]
        ELSE IF command[1] \in ArithmeticCommandTypes THEN "arithmetic"
        ELSE "raise"

\* Parser.getSegmentType: TRUE when it returns a segment
IsSegment(field) == Len(field) = 1 /\ field[1] \in SegmentTypes

\* int(text) succeeds
IsInt(field) == IsNumeric(field)

\* the command cannot be translated: an exception ends the run
Raises(line) ==
    LET f == Fields(line)
        t == commandType(line)
    IN  \/ t = "raise"
        \/ t \in {"push", "pop"} /\
             (\/ Len(f) < 3
              \/ ~IsSegment(f[2])
              \/ ~IsInt(f[3])
              \/ (t = "pop" /\ f[2] = <<"constant">>))
        \/ t \in {"label", "goto", "if-goto"} /\ Len(f) < 2
        \/ t \in {"function", "call"} /\ (Len(f) < 3 \/ ~IsInt(f[3]))

----------------------------------------------------------------------------
(* main: the translation loop *)

\* parser.curr_line after parser.advance(): Python's lines[line_index + 1],
\* counted from 0, is element line_index + 2 of the sequence
NextLine == lines[line_index + 2]

\* the history record of one translated command: its text, the label
\* counter it was translated under and the lines out[first..end] it wrote
CmdRecord(type, line, lc, fname, first, end) ==
    [type |-> type, f |-> Fields(line), lc |-> lc, file |-> fname,
     unit |-> file_index, first |-> first, end |-> end, lo |-> 0, hi |-> 0]

\* codeWriter.write*(...) of one command: append its block to the output
Emit(type, block) ==
    /\ out' = out \o block
    /\ cmds' = Append(cmds, CmdRecord(type, NextLine, labelCounter + 1,
                                      file_name, Len(out) + 1,
                                      Len(out) + Len(block)))

\* "while parser.hasMoreLines(): parser.advance(); ...; labelCounter += 1"
\* for a line of the given command type
Advance(type) ==
    /\ pc = "loop"
    /\ hasMoreLines(lines, line_index)
    /\ NextLine # <<>>
    /\ ~Raises(NextLine)
    /\ commandType(NextLine) = type
    /\ line_index' = line_index + 1
    /\ labelCounter' = labelCounter + 1
    /\ UNCHANGED <<curr_line, curr_char, tokens, current_token_index, stack,
                   exc, parseTree,
                   DEBUG, nobootstrap, dir, ram0, file_data, lines,
                   file_name, pc, file_index, rom, A, D, PC, ram, steps,
                   cur, done>>

\* if args.nobootstrap is None: codeWriter.bootstrap()
Bootstrap ==
    /\ pc = "boot"
    /\ nobootstrap = "None"
    /\ Len(file_data) > 0
    /\ file_name' = file_data[1].filename
    /\ out' = out \o bootstrap(labelCounter)
    /\ cmds' = Append(cmds, CmdRecord("bootstrap", <<>>, labelCounter,
                                      file_data[1].filename, Len(out) + 1,
                                      Len(out) + Len(bootstrap(labelCounter))))
    /\ pc' = "files"
    /\ UNCHANGED <<curr_line, curr_char, tokens, current_token_index, stack,
                   exc, parseTree,
                   DEBUG, nobootstrap, dir, ram0, file_data, lines,
                   line_index, labelCounter, file_index, rom, A, D, PC, ram,
                   steps, cur, done>>

SkipBootstrap ==
    /\ pc = "boot"
    /\ nobootstrap # "None"
    /\ pc' = "files"
    /\ UNCHANGED <<curr_line, curr_char, tokens, current_token_index, stack,
                   exc, parseTree,
                   DEBUG, nobootstrap, dir, ram0, file_data, lines,
                   line_index, labelCounter, file_name, out, file_index,
                   cmds, rom, A, D, PC, ram, steps, cur, done>>

\* parser.useFileLines(fileLines); codeWriter.file_name = fileLines.filename
UseFile ==
    /\ pc = "files"
    /\ file_index <= Len(file_data)
    /\ lines' = cleanLines(file_data[file_index].lines)
    /\ line_index' = 0
    /\ file_name' = file_data[file_index].filename
    /\ pc' = "loop"
    /\ UNCHANGED <<curr_line, curr_char, tokens, current_token_index, stack,
                   exc, parseTree,
                   DEBUG, nobootstrap, dir, ram0, file_data, labelCounter,
                   out, file_index, cmds, rom, A, D, PC, ram, steps, cur, done>>

\* if parser.curr_line == "": continue
SkipBlank ==
    /\ pc = "loop"
    /\ hasMoreLines(lines, line_index)
    /\ NextLine = <<>>
    /\ line_index' = line_index + 1
    /\ UNCHANGED <<curr_line, curr_char, tokens, current_token_index, stack,
                   exc, parseTree,
                   DEBUG, nobootstrap, dir, ram0, file_data, lines,
                   labelCounter, file_name, out, pc, file_index, cmds, rom,
                   A, D, PC, ram, steps, cur, done>>

WriteArithmetic ==
    /\ Advance("arithmetic")
    /\ Emit("arithmetic",
            writeArithmetic(Fields(NextLine)[1][1], labelCounter + 1))

WritePushPop ==
    /\ \E type \in {"push", "pop"} :
         /\ Advance(type)
         /\ Emit(type, writePushPop(type, Fields(NextLine)[2][1],
                                    ToInt(Fields(NextLine)[3]), file_name))

WriteLabel ==
    /\ Advance("label")
    /\ Emit("label", writeLabel(Fields(NextLine)[2]))

WriteGoto ==
    /\ Advance("goto")
    /\ Emit("goto", writeGoto(Fields(NextLine)[2]))

WriteIfGoto ==
    /\ Advance("if-goto")
    /\ Emit("if-goto", writeIfGoto(Fields(NextLine)[2]))

WriteFunction ==
    /\ Advance("function")
    /\ Emit("function", writeFunction(Fields(NextLine)[2],
                                      ToInt(Fields(NextLine)[3]), file_name))

WriteReturn ==
    /\ Advance("return")
    /\ Emit("return", writeReturn)

WriteCall ==
    /\ Advance("call")
    /\ Emit("call", writeCall(Fields(NextLine)[2],
                              ToInt(Fields(NextLine)[3]), labelCounter + 1))

\* an exception ends the run: a command that cannot be translated, or
\* parser.file_data[0] of an empty file list
Fail ==
    /\ \/ /\ pc = "loop"
          /\ hasMoreLines(lines, line_index)
          /\ NextLine # <<>>
          /\ Raises(NextLine)
          /\ line_index' = line_index + 1
          /\ labelCounter' = labelCounter + 1
       \/ /\ pc = "boot"
          /\ nobootstrap = "None"
          /\ Len(file_data) = 0
          /\ UNCHANGED <<line_index, labelCounter>>
    /\ pc' = "failed"
    /\ UNCHANGED <<curr_line, curr_char, tokens, current_token_index, stack,
                   exc, parseTree,
                   DEBUG, nobootstrap, dir, ram0, file_data, lines,
                   file_name, out, file_index, cmds, rom, A, D, PC, ram,
                   steps, cur, done>>

\* the while loop of a file ends
EndOfFile ==
    /\ pc = "loop"
    /\ ~hasMoreLines(lines, line_index)
    /\ file_index' = file_index + 1
    /\ pc' = "files"
    /\ UNCHANGED <<curr_line, curr_char, tokens, current_token_index, stack,
                   exc, parseTree,
                   DEBUG, nobootstrap, dir, ram0, file_data, lines,
                   line_index, labelCounter, file_name, out, cmds, rom, A, D,
                   PC, ram, steps, cur, done>>

\* codeWriter.close()
Close ==
    /\ pc = "files"
    /\ file_index > Len(file_data)
    /\ pc' = "closed"
    /\ UNCHANGED <<curr_line, curr_char, tokens, current_token_index, stack,
                   exc, parseTree,
                   DEBUG, nobootstrap, dir, ram0, file_data, lines,
                   line_index, labelCounter, file_name, out, file_index,
                   cmds, rom, A, D, PC, ram, steps, cur, done>>

----------------------------------------------------------------------------
(* The assembler (projects/06/assembler.py): symbol resolution and the     *)
(* fields of each instruction.                                             *)

\* symbol_table as first defined: the predefined symbols
Predefined ==
    [s \in {"R0", "R1", "R2", "R3", "R4", "R5", "R6", "R7", "R8", "R9",
            "R10", "R11", "R12", "R13", "R14", "R15", "SCREEN", "KBD", "SP",
            "LCL", "ARG", "THIS", "THAT"} |->
        CASE s = "SP" -> 0 [] s = "LCL" -> 1 [] s = "ARG" -> 2
          [] s = "THIS" -> 3 [] s = "THAT" -> 4
          [] s = "SCREEN" -> 16384 [] s = "KBD" -> 24576
          [] s = "R0" -> 0 [] s = "R1" -> 1 [] s = "R2" -> 2 [] s = "R3" -> 3
          [] s = "R4" -> 4 [] s = "R5" -> 5 [] s = "R6" -> 6 [] s = "R7" -> 7
          [] s = "R8" -> 8 [] s = "R9" -> 9 [] s = "R10" -> 10
          [] s = "R11" -> 11 [] s = "R12" -> 12 [] s = "R13" -> 13
          [] s = "R14" -> 14 [] s = "R15" -> 15]

IsPredefined(sym) == Len(sym) = 1 /\ sym[1] \in DOMAIN Predefined

\* clean_data: comment lines and empty lines are dropped
IsCode(line) == ~(Len(line) = 0 \/ line[1] = "//")

clean_data(data) == SelectSeq(data, IsCode)

IsLabelLine(line) == line[1] = "(" /\ line[Len(line)] = ")"

IsALine(line) == line[1] = "@"

\* first_pass: "@predefined" becomes "@number"
first_pass(data) ==
    [i \in 1..Len(data) |->
        IF IsALine(data[i]) /\ IsPredefined(Tail(data[i]))
        THEN At(ToStr(Predefined[data[i][2]]))
        ELSE data[i]]

\* running_line_num when the loop of add_label_symbols reaches data[i]:
\* the number of lines before it that are not label lines
running_line_num(data, i) ==
    Cardinality({j \in 1..(i - 1) : ~IsLabelLine(data[j])})

LabelSymbol(line) == Remove(Remove(line, "("), ")")

\* add_label_symbols: the user symbol table (text -> int) after the pass;
\* a symbol declared twice keeps the line number of its last declaration
add_label_symbols(data) ==
    LET decl == {i \in 1..Len(data) : IsLabelLine(data[i])}
        lastDecl(sym) ==
            CHOOSE i \in decl :
                /\ LabelSymbol(data[i]) = sym
                /\ \A j \in decl : LabelSymbol(data[j]) = sym => j <= i
    IN  [sym \in {LabelSymbol(data[i]) : i \in decl} |->
            running_line_num(data, lastDecl(sym))]

\* the int values of the symbol table
Values(table) == {table[k] : k \in DOMAIN table}

\* get_unique_mem_addr
get_unique_mem_addr(table) ==
    CHOOSE i \in 16..16382 :
        i \notin Values(table) /\ \A j \in 16..(i - 1) : j \in Values(table)

\* the lines at which add_variable_symbols meets a symbol that is not yet
\* in the table: the first "@symbol" line of every symbol that is neither
\* numeric, predefined nor a label
NewVariableLines(data, labels) ==
    {i \in 1..Len(data) :
        /\ ~IsLabelLine(data[i])
        /\ IsALine(data[i])
        /\ Tail(data[i]) \notin DOMAIN labels
        /\ ~IsPredefined(Tail(data[i]))
        /\ ~IsNumeric(Tail(data[i]))
        /\ \A j \in 1..(i - 1) : data[j] # data[i]}

\* add_variable_symbols: the new symbols get their addresses in line order
RECURSIVE add_variable_symbols(_, _, _)
add_variable_symbols(data, todo, table) ==
    IF todo = {} THEN table
    ELSE LET i == CHOOSE k \in todo : \A j \in todo : k <= j
         IN  add_variable_symbols(data, todo \ {i},
                 (Tail(data[i]) :> get_unique_mem_addr(table)) @@ table)

\* the user symbols of a program: labels, then variables
SymbolTable(data) ==
    LET labels == add_label_symbols(data)
    IN  add_variable_symbols(data, NewVariableLines(data, labels), labels)

\* C-instruction lookup tables; the bit strings are texts of "0" and "1"
comp_keys ==
    {"0", "1", "-1", "D", "A", "M", "!D", "!A", "!M", "-D", "-A", "-M",
     "D+1", "A+1", "M+1", "D-1", "A-1", "M-1", "D+A", "D+M", "D-A", "D-M",
     "A-D", "M-D", "D&A", "D&M", "D|A", "D|M"}

dest_keys ==
    {<<"null">>, <<"M">>, <<"D">>, <<"D", "M">>, <<"M", "D">>, <<"A">>,
     <<"A", "M">>, <<"A", "D">>, <<"A", "D", "M">>}

jump_keys == {"null", "JGT", "JEQ", "JGE", "JLT", "JNE", "JLE", "JMP"}

comp_lookup(c) ==
    CASE c = "0" -> <<"1", "0", "1", "0", "1", "0">> [] c = "1" -> <<"1", "1", "1", "1", "1", "1">> [] c = "-1" -> <<"1", "1", "1", "0", "1", "0">>
      [] c = "D" -> <<"0", "0", "1", "1", "0", "0">> [] c = "A" -> <<"1", "1", "0", "0", "0", "0">> [] c = "M" -> <<"1", "1", "0", "0", "0", "0">>
      [] c = "!D" -> <<"0", "0", "1", "1", "0", "1">> [] c = "!A" -> <<"1", "1", "0", "0", "0", "1">> [] c = "!M" -> <<"1", "1", "0", "0", "0", "1">>
      [] c = "-D" -> <<"0", "0", "1", "1", "1", "1">> [] c = "-A" -> <<"1", "1", "0", "0", "1", "1">> [] c = "-M" -> <<"1", "1", "0", "0", "1", "1">>
      [] c = "D+1" -> <<"0", "1", "1", "1", "1", "1">> [] c = "A+1" -> <<"1", "1", "0", "1", "1", "1">>
      [] c = "M+1" -> <<"1", "1", "0", "1", "1", "1">> [] c = "D-1" -> <<"0", "0", "1", "1", "1", "0">>
      [] c = "A-1" -> <<"1", "1", "0", "0", "1", "0">> [] c = "M-1" -> <<"1", "1", "0", "0", "1", "0">>
      [] c = "D+A" -> <<"0", "0", "0", "0", "1", "0">> [] c = "D+M" -> <<"0", "0", "0", "0", "1", "0">>
      [] c = "D-A" -> <<"0", "1", "0", "0", "1", "1">> [] c = "D-M" -> <<"0", "1", "0", "0", "1", "1">>
      [] c = "A-D" -> <<"0", "0", "0", "1", "1", "1">> [] c = "M-D" -> <<"0", "0", "0", "1", "1", "1">>
      [] c = "D&A" -> <<"0", "0", "0", "0", "0", "0">> [] c = "D&M" -> <<"0", "0", "0", "0", "0", "0">>
      [] c = "D|A" -> <<"0", "1", "0", "1", "0", "1">> [] c = "D|M" -> <<"0", "1", "0", "1", "0", "1">>

dest_lookup(d) ==
    CASE d = <<"null">> -> <<"0", "0", "0">> [] d = <<"M">> -> <<"0", "0", "1">>
      [] d = <<"D">> -> <<"0", "1", "0">> [] d = <<"D", "M">> -> <<"0", "1", "1">>
      [] d = <<"M", "D">> -> <<"0", "1", "1">> [] d = <<"A">> -> <<"1", "0", "0">>
      [] d = <<"A", "M">> -> <<"1", "0", "1">> [] d = <<"A", "D">> -> <<"1", "1", "0">>
      [] d = <<"A", "D", "M">> -> <<"1", "1", "1">>

jump_lookup(j) ==
    CASE j = "null" -> <<"0", "0", "0">> [] j = "JGT" -> <<"0", "0", "1">> [] j = "JEQ" -> <<"0", "1", "0">>
      [] j = "JGE" -> <<"0", "1", "1">> [] j = "JLT" -> <<"1", "0", "0">> [] j = "JNE" -> <<"1", "0", "1">>
      [] j = "JLE" -> <<"1", "1", "0">> [] j = "JMP" -> <<"1", "1", "1">>

\* get_a_bit: "M" in the comp mnemonic
get_a_bit(c) ==
    IF c \in {"M", "!M", "-M", "M+1", "M-1", "D+M", "D-M", "M-D", "D&M",
              "D|M"}
    THEN 1 ELSE 0

\* the fields of "[dest=]comp[;jump]" as convert_c_instruction's regular
\* expression splits the line once "null=" and ";null" are filled in: dest
\* character by character, comp and jump as mnemonics
CFields(line) ==
    LET e == FirstAt(line, "=")
        s == FirstAt(line, ";")
    IN  [dest |-> IF e = 0 THEN <<"null">> ELSE SubSeq(line, 1, e - 1),
         comp |-> SubSeq(line, e + 1, IF s = 0 THEN Len(line) ELSE s - 1),
         jump |-> IF s = 0 THEN <<"null">> ELSE SubSeq(line, s + 1, Len(line))]

\* convert_c_instruction raises: value.split(';')[1] of a line without "="
\* and without ";", or a key that is in no table
CRaises(line) ==
    LET f == CFields(line)
    IN  \/ ~Has(line, "=") /\ ~Has(line, ";")
        \/ f.dest \notin dest_keys
        \/ Len(f.comp) # 1 \/ f.comp[1] \notin comp_keys
        \/ Len(f.jump) # 1 \/ f.jump[1] \notin jump_keys

\* convert_c_instruction: "111" a cccccc ddd jjj
convert_c_instruction(line) ==
    LET f == CFields(line)
    IN  <<"1", "1", "1", ToStr(get_a_bit(f.comp[1]))[1]>>
        \o comp_lookup(f.comp[1]) \o dest_lookup(f.dest)
        \o jump_lookup(f.jump[1])

\* the binary digits of n, most significant first: '{0:b}'.format(n)
RECURSIVE Binary(_)
Binary(n) ==
    IF n < 2 THEN <<DigitCh[n + 1]>>
    ELSE Binary(n \div 2) \o <<DigitCh[(n % 2) + 1]>>

\* '{0:016b}'.format(n): zeros are added on the left up to 16 characters
Format016b(n) ==
    LET b == Binary(n)
    IN  [i \in 1..(IF Len(b) < 16 THEN 16 - Len(b) ELSE 0) |-> "0"] \o b

\* int(value[1:]) raises
ARaises(line) == ~IsNumeric(Tail(line))

\* convert_a_instruction of "@number"
convert_a_instruction(line) == Format016b(ToInt(Tail(line)))

\* detect_c_instruction
detect_c_instruction(line) == Has(line, "=") \/ Has(line, ";")

IsInstruction(line) == ~IsLabelLine(line)

\* replace_symbols: label lines are dropped, "@symbol" becomes "@number"
replace_symbols(data, table) ==
    LET code == SelectSeq(data, IsInstruction)
    IN  [i \in 1..Len(code) |->
            IF IsALine(code[i]) /\ Tail(code[i]) \in DOMAIN table
            THEN At(ToStr(table[Tail(code[i])]))
            ELSE code[i]]

\* the lines translate_to_binary converts: "@..." lines and lines that
\* detect_c_instruction accepts; any other line gives no output
IsTranslated(line) == IsALine(line) \/ detect_c_instruction(line)

\* translate_to_binary raises on one of its lines
TranslateRaises(data) ==
    \E i \in 1..Len(data) :
        IF IsALine(data[i]) THEN ARaises(data[i])
        ELSE detect_c_instruction(data[i]) /\ CRaises(data[i])

\* translate_to_binary: one 0/1 text per converted line
translate_to_binary(data) ==
    LET kept == SelectSeq(data, IsTranslated)
    IN  [i \in 1..Len(kept) |->
            IF IsALine(kept[i]) THEN convert_a_instruction(kept[i])
            ELSE convert_c_instruction(kept[i])]

\* the lines handed to translate_to_binary: cleaned, symbols replaced
Resolved(text) ==
    LET data == first_pass(clean_data(text))
    IN  replace_symbols(data, SymbolTable(data))

\* the whole assembler: text of the .asm file to the lines it prints
Assembler(text) == translate_to_binary(Resolved(text))

\* the ROM address of the first instruction at or after line i of the
\* .asm file (the number of instruction lines among text[1..i-1])
RomAddr(text, i) ==
    Cardinality({j \in 1..(i - 1) : IsCode(text[j]) /\ ~IsLabelLine(text[j])})

----------------------------------------------------------------------------
(* The Hack CPU executing the assembled program.  The instruction fields   *)
(* are those of the assembler's tables: a, cccccc, ddd (A D M), jjj.       *)

\* data memory is sparse: a cell never written holds 0
Read(mem, addr) == IF addr \in DOMAIN mem THEN mem[addr] ELSE 0

Write(mem, addr, w) == (addr :> w) @@ mem

\* the RAM address selected by register A (15 bits)
Addr(a) == a % 32768

\* the number a text of binary digits stands for
RECURSIVE BinaryValue(_)
BinaryValue(b) ==
    IF Len(b) = 0 THEN 0
    ELSE 2 * BinaryValue(SubSeq(b, 1, Len(b) - 1)) + DigitVal(b[Len(b)])

\* the fields of a 16-bit instruction word: 0 vvvvvvvvvvvvvvv, or
\* 111 a cccccc ddd jjj
Decode(word) ==
    IF word[1] = "0"
    THEN [kind |-> "A", v |-> BinaryValue(word)]
    ELSE [kind |-> "C", abit |-> DigitVal(word[4]),
          comp |-> SubSeq(word, 5, 10), dest |-> SubSeq(word, 11, 13),
          jump |-> SubSeq(word, 14, 16)]

\* the ALU output for comp bits c, x = D, y = A or M
ALU(c, x, y) ==
    CASE c = <<"1", "0", "1", "0", "1", "0">> -> 0
      [] c = <<"1", "1", "1", "1", "1", "1">> -> 1
      [] c = <<"1", "1", "1", "0", "1", "0">> -> W(-1)
      [] c = <<"0", "0", "1", "1", "0", "0">> -> x
      [] c = <<"1", "1", "0", "0", "0", "0">> -> y
      [] c = <<"0", "0", "1", "1", "0", "1">> -> Not16(x)
      [] c = <<"1", "1", "0", "0", "0", "1">> -> Not16(y)
      [] c = <<"0", "0", "1", "1", "1", "1">> -> W(-x)
      [] c = <<"1", "1", "0", "0", "1", "1">> -> W(-y)
      [] c = <<"0", "1", "1", "1", "1", "1">> -> W(x + 1)
      [] c = <<"1", "1", "0", "1", "1", "1">> -> W(y + 1)
      [] c = <<"0", "0", "1", "1", "1", "0">> -> W(x - 1)
      [] c = <<"1", "1", "0", "0", "1", "0">> -> W(y - 1)
      [] c = <<"0", "0", "0", "0", "1", "0">> -> W(x + y)
      [] c = <<"0", "1", "0", "0", "1", "1">> -> W(x - y)
      [] c = <<"0", "0", "0", "1", "1", "1">> -> W(y - x)
      [] c = <<"0", "0", "0", "0", "0", "0">> -> And16(x, y)
      [] c = <<"0", "1", "0", "1", "0", "1">> -> Or16(x, y)

\* the jump condition jjj on the ALU output
Jumps(j, w) ==
    CASE j = <<"0", "0", "0">> -> FALSE
      [] j = <<"0", "0", "1">> -> Signed(w) > 0
      [] j = <<"0", "1", "0">> -> w = 0
      [] j = <<"0", "1", "1">> -> Signed(w) >= 0
      [] j = <<"1", "0", "0">> -> Signed(w) < 0
      [] j = <<"1", "0", "1">> -> w # 0
      [] j = <<"1", "1", "0">> -> Signed(w) <= 0
      [] j = <<"1", "1", "1">> -> TRUE

DestA(d) == d[1] = "1"
DestD(d) == d[2] = "1"
DestM(d) == d[3] = "1"

\* the index in cmds of the command whose block holds ROM address p
\* (0 when p is in no block)
BlockOf(cs, p) ==
    IF \E k \in 1..Len(cs) : cs[k].lo <= p /\ p < cs[k].hi
    THEN CHOOSE k \in 1..Len(cs) : cs[k].lo <= p /\ p < cs[k].hi
    ELSE 0

\* the assembler is run on the .asm file and the program is loaded
Assemble ==
    /\ pc = "closed"
    /\ rom' = Assembler(out)
    /\ cmds' = [k \in 1..Len(cmds) |->
                  [cmds[k] EXCEPT !.lo = RomAddr(out, cmds[k].first),
                                  !.hi = RomAddr(out, cmds[k].end + 1)]]
    /\ A' = 0 /\ D' = 0 /\ PC' = 0
    /\ ram' = ram0
    /\ steps' = 0
    /\ cur' = [k |-> BlockOf(cmds', 0), ram |-> ram0, log |-> <<>>]
    /\ done' = <<>>
    /\ pc' = "run"
    /\ UNCHANGED <<curr_line, curr_char, tokens, current_token_index, stack,
                   exc, parseTree,
                   DEBUG, nobootstrap, dir, ram0, file_data, lines,
                   line_index, labelCounter, file_name, out, file_index>>

\* the effect of the instruction at PC: registers, memory, and the memory
\* accesses it makes (<<"r", addr>> then <<"w", addr, word>>)
Exec(ins) ==
    IF ins.kind = "A"
    THEN [A |-> ins.v, D |-> D, PC |-> PC + 1, ram |-> ram, log |-> <<>>]
    ELSE LET m == Read(ram, Addr(A))
             w == ALU(ins.comp, D, IF ins.abit = 1 THEN m ELSE A)
         IN  [A |-> IF DestA(ins.dest) THEN w ELSE A,
              D |-> IF DestD(ins.dest) THEN w ELSE D,
              PC |-> IF Jumps(ins.jump, w) THEN A ELSE PC + 1,
              ram |-> IF DestM(ins.dest) THEN Write(ram, Addr(A), w) ELSE ram,
              log |-> (IF ins.abit = 1 THEN << <<"r", Addr(A)>> >> ELSE <<>>)
                      \o (IF DestM(ins.dest) THEN << <<"w", Addr(A), w>> >>
                          ELSE <<>>)]

MaxSteps == 400

\* one instruction cycle
Step ==
    /\ pc = "run"
    /\ PC < Len(rom)
    /\ steps < MaxSteps
    /\ LET e == Exec(Decode(rom[PC + 1]))
           leaves == cur.k = 0 \/ ~(cmds[cur.k].lo <= e.PC /\ e.PC < cmds[cur.k].hi)
       IN  /\ A' = e.A /\ D' = e.D /\ PC' = e.PC /\ ram' = e.ram
           /\ IF leaves
              THEN /\ done' = Append(done,
                                [k |-> cur.k, before |-> cur.ram,
                                 after |-> e.ram, log |-> cur.log \o e.log,
                                 exit |-> e.PC])
                   /\ cur' = [k |-> BlockOf(cmds, e.PC), ram |-> e.ram,
                              log |-> <<>>]
              ELSE /\ done' = done
                   /\ cur' = [cur EXCEPT !.log = cur.log \o e.log]
    /\ steps' = steps + 1
    /\ UNCHANGED <<curr_line, curr_char, tokens, current_token_index, stack,
                   exc, parseTree,
                   DEBUG, nobootstrap, dir, ram0, file_data, lines,
                   line_index, labelCounter, file_name, out, pc, file_index,
                   cmds, rom>>

\* the program counter runs off the end of the program
Halt ==
    /\ pc = "run"
    /\ PC >= Len(rom)
    /\ pc' = "halt"
    /\ UNCHANGED <<curr_line, curr_char, tokens, current_token_index, stack,
                   exc, parseTree,
                   DEBUG, nobootstrap, dir, ram0, file_data, lines,
                   line_index, labelCounter, file_name, out, file_index,
                   cmds, rom, A, D, PC, ram, steps, cur, done>>

------------------------------------------------------------------------\* a node of the parse tree: an element with its tag, text and children
Node(tag, text, kids) == [tag |-> tag, text |-> text, kids |-> kids]

\* CompilationEngine.parseTree = None
NoTree == Node("None", "", <<>>)

----
(* Inputs: command lines, directories of .vm files and the RAM prepared    *)
(* by the test harness.                                                    *)

MaxIndex == 2
MaxArgs == 2
MaxLocals == 2

\* segment indices tried: small ones and a two-digit one
Indices == (0..MaxIndex) \cup {12}

\* 16-bit words tried as stack operands
WordSample == {0, 1, 2, 21845, 32767, 32768, 43690, 65534, 65535}

\* a line of VM text: the fields joined by single spaces
RECURSIVE Join(_)
Join(fields) ==
    IF Len(fields) = 0 THEN <<>>
    ELSE IF Len(fields) = 1 THEN fields[1]
    ELSE fields[1] \o <<" ">> \o Join(Tail(fields))

PushPop(type, segment, index) == Join(<< <<type>>, <<segment>>, ToStr(index) >>)

Blank == <<"\n">>

\* file names, character by character
FooVm == <<"F", "o", "o", ".", "v", "m">>
BarVm == <<"B", "a", "r", ".", "v", "m">>
SumVm == <<"S", "u", "m", ".", "v", "m">>
SuVm  == <<"S", "u", ".", "v", "m">>
SysVm == <<"S", "y", "s", ".", "v", "m">>
NotesTxt == <<"n", "o", "t", "e", "s", ".", "t", "x", "t">>

File(name, ls) == [name |-> name, lines |-> ls]

OneFile(ls) == [isdir |-> FALSE, files |-> << File(FooVm, ls) >>]

\* the RAM a test script prepares: SP, the segment pointers, two words x y
\* on the stack, and known words in the cells the commands can reach
SegmentBases == {5, 300, 400, 3000, 3010}

Harness(x, y) ==
    [a \in {0, 1, 2, 3, 4, 13, 256, 257}
           \cup {b + i : b \in SegmentBases, i \in Indices} |->
        CASE a = 0 -> 258 [] a = 1 -> 300 [] a = 2 -> 400
          [] a = 3 -> 3000 [] a = 4 -> 3010
          [] a = 13 -> 777
          [] a = 256 -> x [] a = 257 -> y
          [] OTHER -> (a * 7 + 3) % WordSize]

EmptyRam == [a \in {} |-> 0]

Scenario(dbg, nb, d, r) == [DEBUG |-> dbg, nobootstrap |-> nb, dir |-> d, ram0 |-> r]

\* one arithmetic command on every pair of sampled words
ArithmeticRuns ==
    { Scenario(TRUE, "True", OneFile(<<Blank, <<op>> >>), Harness(x, y)) :
        op \in ArithmeticCommandTypes, x \in WordSample, y \in WordSample }

\* one push or pop on every segment and index
PushPopRuns ==
    { Scenario(dbg, "True",
               OneFile(<<Blank, PushPop(type, seg, i)>>), Harness(x, 4321)) :
        dbg \in BOOLEAN, type \in {"push", "pop"}, seg \in SegmentTypes,
        i \in Indices, x \in {0, 65535} }

\* pop pointer k followed by push pointer k
PointerRuns ==
    { Scenario(TRUE, "True",
               OneFile(<<Blank, PushPop("pop", "pointer", k),
                         PushPop("push", "pointer", k)>>), Harness(x, y)) :
        k \in {0, 1}, x \in {7}, y \in WordSample }

L1 == <<"LOOP_END">>

\* goto, if-goto (jump taken or not) and label
BranchRuns ==
    { Scenario(TRUE, "True",
               OneFile(<<Blank, Join(<< <<br>>, L1 >>),
                         <<"//", " ", "skipped", " ", "when", " ", "jumping">>,
                         PushPop("push", "constant", 1) \o <<" ", "//", "one">>,
                         Blank,
                         <<" ">> \o Join(<< <<"label">>, L1 >>) \o <<"\n">>,
                         PushPop("push", "constant", 2)>>), Harness(x, y)) :
        br \in {"goto", "if-goto"}, x \in {7}, y \in WordSample }


FooBar == <<"Foo", ".", "bar">>
SysInit == <<"Sys", ".", "init">>
MainLabel == <<"MAIN">>

\* "push constant 11", "push constant 12", ...: the n arguments of a call
RECURSIVE PushArgs(_)
PushArgs(n) ==
    IF n = 0 THEN <<>>
    ELSE PushArgs(n - 1) \o << PushPop("push", "constant", 10 + n) >>

\* bodies of the callee of n arguments: each leaves the return value v on
\* top of its stack; the second one first changes THIS, THAT and (when it
\* has one) its first argument
Bodies(v, n) ==
    { << PushPop("push", "constant", v) >>,
      << PushPop("push", "constant", 9), PushPop("pop", "pointer", 0),
         PushPop("push", "constant", 8), PushPop("pop", "pointer", 1) >>
      \o (IF n = 0 THEN <<>>
          ELSE << PushPop("push", "constant", 6),
                  PushPop("pop", "argument", 0) >>)
      \o << PushPop("push", "constant", v) >> }

ReturnValues == {0, 5, 32767}

\* function Foo.bar k / body / return
Callee(k, body) ==
    << Join(<< <<"function">>, FooBar, ToStr(k) >>) >> \o body \o << <<"return">> >>

\* n pushes / call Foo.bar n
Caller(n) ==
    PushArgs(n) \o << Join(<< <<"call">>, FooBar, ToStr(n) >>) >>

\* a call and its return in one file run from a prepared RAM
CallRunsOf(n) ==
    { Scenario(TRUE, "True",
               OneFile(<<Blank, Join(<< <<"goto">>, MainLabel >>)>>
                       \o Callee(k, body)
                       \o << Join(<< <<"label">>, MainLabel >>) >>
                       \o Caller(n)),
               Harness(7, 8)) :
        k \in 0..MaxLocals,
        body \in UNION {Bodies(v, n) : v \in ReturnValues} }

CallRuns == UNION {CallRunsOf(n) : n \in 0..MaxArgs}

\* the same called from Sys.init after the bootstrap, from an empty RAM
BootCallRunsOf(n) ==
    { Scenario(dbg, "None",
               [isdir |-> TRUE,
                files |-> << File(FooVm, <<Blank>> \o Callee(k, body)),
                             File(NotesTxt, <<Blank>>),
                             File(SysVm, <<Blank,
                                           Join(<< <<"function">>, SysInit, ToStr(0) >>)>>
                                         \o Caller(n)) >>],
               EmptyRam) :
        dbg \in BOOLEAN, k \in 0..MaxLocals,
        body \in UNION {Bodies(v, n) : v \in ReturnValues} }

BootCallRuns == UNION {BootCallRunsOf(n) : n \in 0..MaxArgs}

\* two units of different names: the first pops 42 to static i, the second
\* pushes static j
UnitNames == {FooVm, BarVm, SumVm, SuVm}

StaticRuns ==
    { Scenario(TRUE, "True",
               [isdir |-> TRUE,
                files |-> << File(p[1], <<Blank, PushPop("push", "constant", 42),
                                          PushPop("pop", "static", i)>>),
                             File(p[2], <<Blank, PushPop("push", "static", j)>>) >>],
               Harness(7, 8)) :
        p \in {q \in UnitNames \X UnitNames : q[1] # q[2]},
        i \in {0, 3}, j \in {0, 3} }

\* every value of the --nobootstrap option, on a directory and on one file
BootRuns ==
    { Scenario(dbg, nb,
               [isdir |-> isd,
                files |-> << File(SysVm, <<Blank,
                                           Join(<< <<"function">>, SysInit, ToStr(k) >>),
                                           PushPop("push", "constant", 1)>>) >>
                          \o more],
               IF nb = "None" THEN EmptyRam ELSE Harness(7, 8)) :
        dbg \in BOOLEAN, nb \in {"None", "True", "False"}, isd \in BOOLEAN,
        k \in 0..MaxLocals,
        more \in { <<>>, << File(FooVm, << PushPop("push", "constant", 3),
                                           PushPop("push", "constant", 4) >>) >> } }

\* a directory without any .vm file
EmptyDirRuns ==
    { Scenario(TRUE, nb, [isdir |-> TRUE, files |-> << File(NotesTxt, <<Blank>>) >>],
               EmptyRam) : nb \in {"None", "True"} }

\* two units that each declare a label, of the same name or not
LabelNames == {L1, <<"LOOP">>}

LabelRuns ==
    { Scenario(TRUE, "True",
               [isdir |-> TRUE,
                files |-> << File(FooVm, <<Blank, Join(<< <<"label">>, la >>),
                                          PushPop("push", "constant", 1)>>),
                             File(BarVm, <<Blank, Join(<< <<"label">>, lb >>),
                                          PushPop("push", "constant", 2)>>) >>],
               Harness(7, 8)) :
        la \in LabelNames, lb \in LabelNames }

\* command lines the translator cannot translate
BadLines ==
    { PushPop("pop", "constant", i) : i \in {0, 12} }
    \cup { Join(<< <<"push">>, <<"bogus">>, ToStr(0) >>),
           Join(<< <<"pop">>, <<"bogus">>, ToStr(1) >>),
           Join(<< <<"pop">>, <<"local">>, <<"x">> >>),
           Join(<< <<"push">>, <<"constant">>, <<"1", "x">> >>),
           <<"frobnicate">>,
           Join(<< <<"frobnicate">>, <<"local">>, ToStr(1) >>) }

\* a bad line alone in its file, after a blank line, and after a command
ErrorRuns ==
    { Scenario(dbg, "True", OneFile(pre \o <<bad>>), Harness(7, 8)) :
        dbg \in BOOLEAN, bad \in BadLines,
        pre \in { <<>>, <<Blank>>,
                  <<Blank, PushPop("push", "constant", 1)>>,
                  <<PushPop("push", "constant", 1),
                    PushPop("push", "constant", 2)>> } }
    \cup
    { Scenario(dbg, "None",
               OneFile(<<Blank, Join(<< <<"function">>, SysInit, ToStr(0) >>),
                         bad>>),
               EmptyRam) :
        dbg \in BOOLEAN, bad \in BadLines }

Scenarios ==
    ArithmeticRuns \cup PushPopRuns \cup PointerRuns \cup BranchRuns
    \cup CallRuns \cup BootCallRuns \cup StaticRuns \cup BootRuns
    \cup EmptyDirRuns \cup LabelRuns \cup ErrorRuns

----------------------------------------------------------------------------
(* The specification *)

\* the state after "parser = Parser(...)" and "codeWriter = CodeWriter(...)"
Init ==
    /\ \E sc \in Scenarios :
         /\ DEBUG = sc.DEBUG
         /\ nobootstrap = sc.nobootstrap
         /\ dir = sc.dir
         /\ ram0 = sc.ram0
         /\ file_data = LoadFiles(sc.dir)
    /\ lines = <<>>
    /\ line_index = 0
    /\ labelCounter = 0
    /\ file_name = <<>>
    /\ out = <<>>
    /\ pc = "boot"
    /\ file_index = 1
    /\ cmds = <<>>
    /\ rom = <<>>
    /\ A = 0 /\ D = 0 /\ PC = 0
    /\ ram = EmptyRam
    /\ steps = 0
    /\ cur = [k |-> 0, ram |-> EmptyRam, log |-> <<>>]
    /\ done = <<>>
    /\ tokens = <<>>
    /\ current_token_index = 0
    /\ curr_line = 0 /\ curr_char = 0
    /\ stack = <<>>
    /\ exc = "none"
    /\ parseTree = NoTree

Next ==
    \/ Bootstrap
    \/ SkipBootstrap
    \/ UseFile
    \/ SkipBlank
    \/ WriteArithmetic
    \/ WritePushPop
    \/ WriteLabel
    \/ WriteGoto
    \/ WriteIfGoto
    \/ WriteFunction
    \/ WriteReturn
    \/ WriteCall
    \/ Fail
    \/ EndOfFile
    \/ Close
    \/ Assemble
    \/ Step
    \/ Halt

Spec == Init /\ [][Next]_vars

----------------------------------------------------------------------------
(* Properties.  They speak about the completed command blocks: done[i] is  *)
(* the i-th block the CPU left, with the RAM before and after it.          *)

Blocks == 1..Len(done)

CmdOf(i) == cmds[done[i].k]

SPBefore(i) == Read(done[i].before, 0)

SPAfter(i) == Read(done[i].after, 0)

\* the words of a VM command: its mnemonic, segment, index
OpOf(c) == c.f[1][1]
SegOf(c) == c.f[2][1]
IndexOf(c) == ToInt(c.f[3])

BinaryOps == {"add", "sub", "and", "or", "eq", "gt", "lt"}
UnaryOps == {"neg", "not"}

IsData(c) == c.type \in {"push", "pop", "arithmetic"}

\* the expected change of SP of a data command
SPDelta(c) ==
    IF c.type = "push" THEN 1
    ELSE IF c.type = "pop" THEN -1
    ELSE IF OpOf(c) \in BinaryOps THEN -1 ELSE 0

RECURSIVE SumDelta(_, _)
SumDelta(cs, n) == IF n = 0 THEN 0 ELSE SumDelta(cs, n - 1) + SPDelta(cs[n])

\* C3: executing the block of a push changes SP by +1, of a pop and of a
\* binary arithmetic or comparison command by -1, of neg and not by 0; and
\* after a whole program of such commands SP is its initial value plus the
\* number of pushes minus the number of pops and binary commands.
C3_StackPointerEffect ==
    /\ \A i \in Blocks :
         IsData(CmdOf(i)) => SPAfter(i) = SPBefore(i) + SPDelta(CmdOf(i))
    /\ (pc = "halt" /\ \A k \in 1..Len(cmds) : IsData(cmds[k]))
         => Read(ram, 0) = Read(ram0, 0) + SumDelta(cmds, Len(cmds))

\* a pop and the push after it have both been executed
C3_Witness ==
    /\ pc = "halt"
    /\ Len(done) = 2
    /\ CmdOf(1).type = "pop" /\ SPAfter(1) = SPBefore(1) - 1
    /\ CmdOf(2).type = "push" /\ SPAfter(2) = SPBefore(2) + 1

\* C4 as stated: goto, if-goto and label all leave SP unchanged.
C4_BranchesKeepSP ==
    \A i \in Blocks :
        CmdOf(i).type \in {"goto", "if-goto", "label"} => SPAfter(i) = SPBefore(i)

\* C4 amended: goto leaves SP unchanged, label emits no instruction at all,
\* and if-goto pops the condition: SP decreases by exactly 1 whether or not
\* the jump is taken.
C4_BranchEffect ==
    /\ \A i \in Blocks :
         /\ CmdOf(i).type = "goto" => SPAfter(i) = SPBefore(i)
         /\ CmdOf(i).type = "if-goto" => SPAfter(i) = SPBefore(i) - 1
         /\ CmdOf(i).type # "label"
    /\ pc \in {"run", "halt"} =>
         \A k \in 1..Len(cmds) : cmds[k].type = "label" => cmds[k].lo = cmds[k].hi

\* an if-goto whose jump was taken, over the command that follows it
C4_Witness ==
    \E i \in Blocks :
        /\ CmdOf(i).type = "if-goto"
        /\ done[i].exit # CmdOf(i).hi
        /\ SPAfter(i) = SPBefore(i) - 1

\* bit i of a word
Bit(w, i) == (w \div (2 ^ i)) % 2

\* the word r is the bitwise AND / OR / NOT of x (and y)
IsAnd(r, x, y) == \A i \in 0..15 : Bit(r, i) = Bit(x, i) * Bit(y, i)
IsOr(r, x, y) ==
    \A i \in 0..15 : Bit(r, i) = (IF Bit(x, i) + Bit(y, i) > 0 THEN 1 ELSE 0)
IsNot(r, y) == \A i \in 0..15 : Bit(r, i) = 1 - Bit(y, i)

\* the RAM cells that differ between two memories
Changed(m1, m2) ==
    {a \in DOMAIN m1 \cup DOMAIN m2 : Read(m1, a) # Read(m2, a)}

\* C5: add, sub, and, or leave (x + y) mod 2^16, (x - y) mod 2^16, x AND y,
\* x OR y in the cell of x = RAM[SP-2] (y = RAM[SP-1] is the top); neg and
\* not replace the top y by (-y) mod 2^16 and NOT y; no other cell than the
\* result cell and SP changes.
C5_ArithmeticResult ==
    \A i \in Blocks :
        (CmdOf(i).type = "arithmetic" /\ OpOf(CmdOf(i)) \notin {"eq", "gt", "lt"}) =>
            LET op == OpOf(CmdOf(i))
                s == SPBefore(i)
                x == Read(done[i].before, s - 2)
                y == Read(done[i].before, s - 1)
                cell == IF op \in UnaryOps THEN s - 1 ELSE s - 2
                r == Read(done[i].after, cell)
            IN  /\ CASE op = "add" -> r = (x + y) % 65536
                     [] op = "sub" -> r = (x - y) % 65536
                     [] op = "and" -> IsAnd(r, x, y)
                     [] op = "or"  -> IsOr(r, x, y)
                     [] op = "neg" -> r = (0 - y) % 65536
                     [] op = "not" -> IsNot(r, y)
                /\ Changed(done[i].before, done[i].after) \subseteq {0, cell}

\* a sub that wrapped around: 1 - 2 = 65535
C5_Witness ==
    \E i \in Blocks :
        /\ OpOf(CmdOf(i)) = "sub"
        /\ Read(done[i].before, SPBefore(i) - 2) = 1
        /\ Read(done[i].before, SPBefore(i) - 1) = 2
        /\ Read(done[i].after, SPBefore(i) - 2) = 65535


\* the comparison of two signed values that a comparison command names
Holds(op, x, y) ==
    CASE op = "eq" -> x = y
      [] op = "gt" -> x > y
      [] op = "lt" -> x < y

\* C6: eq, gt, lt leave -1 (65535) in the cell of x = RAM[SP-2] when
\* x = y, x > y, x < y as signed 16-bit values (y = RAM[SP-1]) and 0
\* otherwise, and SP decreases by 1 on both paths.
C6_ComparisonResult ==
    \A i \in Blocks :
        (CmdOf(i).type = "arithmetic" /\ OpOf(CmdOf(i)) \in {"eq", "gt", "lt"}) =>
            LET s == SPBefore(i)
                x == Signed(Read(done[i].before, s - 2))
                y == Signed(Read(done[i].before, s - 1))
            IN  /\ Read(done[i].after, s - 2) =
                     (IF Holds(OpOf(CmdOf(i)), x, y) THEN 65535 ELSE 0)
                /\ SPAfter(i) = s - 1

\* the RAM cell a segment command addresses, from the RAM before it
Base(seg) ==
    CASE seg = "local" -> 1 [] seg = "argument" -> 2
      [] seg = "this" -> 3 [] seg = "that" -> 4

Target(c, mem) ==
    IF SegOf(c) = "temp" THEN 5 + IndexOf(c)
    ELSE Read(mem, Base(SegOf(c))) + IndexOf(c)

Writes(log) == {log[p][2] : p \in {q \in 1..Len(log) : log[q][1] = "w"}}

\* position of the first write to cell a / first read of cell a in a log
\* (0 when there is none)
FirstAccess(log, kind, a) ==
    LET hits == {p \in 1..Len(log) : log[p][1] = kind /\ log[p][2] = a}
    IN  IF hits = {} THEN 0 ELSE CHOOSE p \in hits : \A q \in hits : p <= q

\* C7: for local, argument, this, that (base LCL, ARG, THIS, THAT) push
\* copies RAM[RAM[base] + i] to RAM[SP] and increments SP, pop stores the
\* old top RAM[SP-1] into RAM[RAM[base] + i] and decrements SP; for temp the
\* address is 5 + i, not dereferenced.  The pop block saves the address in
\* R13 before it reads the stack value and writes R13, the target and SP
\* only.
C7_SegmentAccess ==
    \A i \in Blocks :
        LET c == CmdOf(i)
            b == done[i]
            s == SPBefore(i)
            t == Target(c, b.before)
        IN  (c.type \in {"push", "pop"}
             /\ SegOf(c) \in {"local", "argument", "this", "that", "temp"}) =>
                IF c.type = "push"
                THEN /\ Read(b.after, s) = Read(b.before, t)
                     /\ SPAfter(i) = s + 1
                ELSE /\ Read(b.after, t) = Read(b.before, s - 1)
                     /\ SPAfter(i) = s - 1
                     /\ Read(b.after, 13) = t
                     /\ FirstAccess(b.log, "w", 13) > 0
                     /\ FirstAccess(b.log, "r", s - 1) > FirstAccess(b.log, "w", 13)
                     /\ Writes(b.log) \subseteq {13, t, 0}

\* pop argument 12 stored the top of the stack at RAM[ARG] + 12
C7_Witness ==
    \E i \in Blocks :
        /\ CmdOf(i).type = "pop" /\ SegOf(CmdOf(i)) = "argument"
        /\ IndexOf(CmdOf(i)) = 12
        /\ Read(done[i].after, 412) = 4321
        /\ Read(done[i].before, 412) # 4321

IsPointerCmd(c, type, k) ==
    c.type = type /\ SegOf(c) = "pointer" /\ IndexOf(c) = k

\* C8: push pointer 0 / 1 pushes the content of RAM[3] / RAM[4];
\* pop pointer 0 / 1 writes the popped value into RAM[3] / RAM[4] itself and
\* not into the memory it points to; pop pointer k followed by push pointer k
\* leaves the stack as it was before the pop.
C8_PointerSegment ==
    \A i \in Blocks : \A k \in {0, 1} :
        LET b == done[i]
            s == SPBefore(i)
        IN  /\ IsPointerCmd(CmdOf(i), "push", k) =>
                 /\ Read(b.after, s) = Read(b.before, 3 + k)
                 /\ SPAfter(i) = s + 1
            /\ IsPointerCmd(CmdOf(i), "pop", k) =>
                 /\ Read(b.after, 3 + k) = Read(b.before, s - 1)
                 /\ SPAfter(i) = s - 1
                 /\ Changed(b.before, b.after) \subseteq {13, 3 + k, 0}
            /\ (/\ i > 1
                /\ IsPointerCmd(CmdOf(i - 1), "pop", k)
                /\ IsPointerCmd(CmdOf(i), "push", k)) =>
                 /\ SPAfter(i) = SPBefore(i - 1)
                 /\ \A a \in 256..(SPAfter(i) - 1) :
                        Read(b.after, a) = Read(done[i - 1].before, a)

\* pop pointer 1 then push pointer 1 ran, THAT changed, and the popped word
\* is back on the stack
C8_Witness ==
    /\ Len(done) = 2
    /\ IsPointerCmd(CmdOf(1), "pop", 1) /\ IsPointerCmd(CmdOf(2), "push", 1)
    /\ Read(done[2].after, 4) = 43690
    /\ Read(done[1].before, 4) = 3010
    /\ Read(done[2].after, 257) = 43690


\* the completed call block that a completed return block answers: the
\* latest call before it (the programs tried make one call at a time)
CallOf(i) ==
    LET calls == {j \in 1..(i - 1) : CmdOf(j).type = "call"}
    IN  IF calls = {} THEN 0 ELSE CHOOSE j \in calls : \A q \in calls : q <= j

\* C1: after call f n (SP = s, the n arguments below it) and the callee's
\* return with value v on top of its stack: LCL, ARG, THIS, THAT hold what
\* they held when the call started, SP = s - n + 1, RAM[s - n] = v, and
\* execution continues right after the call block; for every n >= 0.
C1_CallReturnRoundTrip ==
    \A i \in Blocks :
        (CmdOf(i).type = "return" /\ CallOf(i) # 0) =>
            LET j == CallOf(i)
                s == SPBefore(j)
                n == IndexOf(CmdOf(j))
                v == Read(done[i].before, SPBefore(i) - 1)
            IN  /\ \A r \in 1..4 :
                      Read(done[i].after, r) = Read(done[j].before, r)
                /\ SPAfter(i) = s - n + 1
                /\ Read(done[i].after, s - n) = v
                /\ done[i].exit = CmdOf(j).hi

\* a call without arguments returned 5 from a callee that changed THIS
C1_Witness ==
    \E i \in Blocks :
        /\ CmdOf(i).type = "return" /\ CallOf(i) # 0
        /\ IndexOf(CmdOf(CallOf(i))) = 0
        /\ Read(done[i].before, 3) = 9
        /\ Read(done[i].after, 3) # 9
        /\ Read(done[i].after, SPAfter(i) - 1) = 5

\* the RAM writes of a log, in order
WriteSeq(log) == SelectSeq(log, LAMBDA e : e[1] = "w")

\* the writes of a call block entered with SP = s in RAM mem, for n
\* arguments and return address ret
FrameWrites(mem, s, n, ret) ==
    << <<"w", s, ret>>,                  <<"w", 0, s + 1>>,
       <<"w", s + 1, Read(mem, 1)>>,     <<"w", 0, s + 2>>,
       <<"w", s + 2, Read(mem, 2)>>,     <<"w", 0, s + 3>>,
       <<"w", s + 3, Read(mem, 3)>>,     <<"w", 0, s + 4>>,
       <<"w", s + 4, Read(mem, 4)>>,     <<"w", 0, s + 5>>,
       <<"w", 2, s - n>>,
       <<"w", 1, s + 5>> >>

\* the ROM address of label (f): the block of "function f k"
EntryOf(f) ==
    LET fs == {k \in 1..Len(cmds) : cmds[k].type = "function" /\ cmds[k].f[2] = f}
    IN  IF fs = {} THEN -1 ELSE cmds[CHOOSE k \in fs : TRUE].lo

\* C2: the block of call f n entered with SP = s stores the return address,
\* LCL, ARG, THIS, THAT at RAM[s..s+4] (SP ending at s + 5), then sets
\* ARG = s - n, then LCL = s + 5, then jumps to f; the jump is the last
\* instruction of the block and the return address is the address of the
\* instruction after it.
C2_CallFrameProtocol ==
    \A i \in Blocks :
        CmdOf(i).type = "call" =>
            LET c == CmdOf(i)
                s == SPBefore(i)
            IN  /\ WriteSeq(done[i].log) =
                     FrameWrites(done[i].before, s, IndexOf(c), c.hi)
                /\ SPAfter(i) = s + 5
                /\ done[i].exit = EntryOf(c.f[2])
                /\ Decode(rom[c.hi]).kind = "C"
                /\ Decode(rom[c.hi]).jump = <<"1", "1", "1">>
                /\ Decode(rom[c.hi - 1]) = [kind |-> "A", v |-> EntryOf(c.f[2])]

\* a call with two arguments has been executed from SP = 260
C2_Witness ==
    \E i \in Blocks :
        /\ CmdOf(i).type = "call"
        /\ IndexOf(CmdOf(i)) = 2
        /\ SPBefore(i) = 260
        /\ Read(done[i].after, 2) = 258
        /\ PC = EntryOf(FooBar)


IsVm(file) == EndsWith(file.name, <<".", "v", "m">>)

\* the .vm files of the run, in the order file_data holds them
VmFiles(d) == IF d.isdir THEN SelectSeq(d.files, IsVm) ELSE d.files

\* a file name without its ".vm" extension
Stem(name) ==
    IF EndsWith(name, <<".", "v", "m">>) THEN SubSeq(name, 1, Len(name) - 3)
    ELSE name

IsStatic(c) == c.type \in {"push", "pop"} /\ SegOf(c) = "static"

\* the assembler symbol the block of a static command refers to
StaticSymbol(c) ==
    LET at == {p \in c.first..c.end : IsALine(out[p]) /\ out[p] # <<"@", "SP">>}
    IN  Tail(out[CHOOSE p \in at : TRUE])

\* the word a completed "push static" block must push: the word last popped
\* to the same index by the same unit, 0 when there is none
StaticValue(i) ==
    LET c == CmdOf(i)
        pops == {j \in 1..(i - 1) :
                    /\ CmdOf(j).type = "pop" /\ IsStatic(CmdOf(j))
                    /\ CmdOf(j).unit = c.unit
                    /\ IndexOf(CmdOf(j)) = IndexOf(c)}
        j == CHOOSE q \in pops : \A r \in pops : r <= q
    IN  IF pops = {} THEN 0 ELSE Read(done[j].before, SPBefore(j) - 1)

\* C9: push static i / pop static i of file Foo.vm refer to the symbol
\* Foo.i, Foo being the file name without ".vm"; two different files never
\* use a common symbol, and a value popped to static i in one unit is never
\* read by push static i of another.
C9_StaticsPerUnit ==
    pc \in {"closed", "run", "halt"} =>
        /\ \A k \in 1..Len(cmds) :
             IsStatic(cmds[k]) =>
                StaticSymbol(cmds[k]) =
                    Stem(VmFiles(dir)[cmds[k].unit].name) \o <<".">>
                    \o ToStr(IndexOf(cmds[k]))
        /\ \A k1, k2 \in 1..Len(cmds) :
             (IsStatic(cmds[k1]) /\ IsStatic(cmds[k2])
              /\ cmds[k1].unit # cmds[k2].unit) =>
                StaticSymbol(cmds[k1]) # StaticSymbol(cmds[k2])
        /\ \A i \in Blocks :
             (CmdOf(i).type = "push" /\ IsStatic(CmdOf(i))) =>
                Read(done[i].after, SPBefore(i)) = StaticValue(i)

\* the instructions the bootstrap must open the output with
BootstrapText ==
    << <<"@", "2", "5", "6">>, <<"D", "=", "A">>, <<"@", "SP">>,
       <<"M", "=", "D">> >>
    \o SelectSeq(writeCall(SysInit, 0, 0), IsCode)

\* C10: without --nobootstrap the output opens with SP = 256 and the call
\* sequence of Sys.init with 0 arguments, before the lines of every user
\* command; with --nobootstrap no bootstrap instruction is emitted.
C10_BootstrapOrdering ==
    pc = "closed" =>
        /\ nobootstrap # "True" =>
             /\ Len(clean_data(out)) >= Len(BootstrapText)
             /\ SubSeq(clean_data(out), 1, Len(BootstrapText)) = BootstrapText
             /\ Len(cmds) > 0 /\ cmds[1].type = "bootstrap"
             /\ \A k \in 2..Len(cmds) :
                    cmds[k].type # "bootstrap" /\ cmds[k].first > cmds[1].end
        /\ nobootstrap = "True" =>
             \A p \in 1..Len(out) :
                \E k \in 1..Len(cmds) :
                    /\ cmds[k].type # "bootstrap"
                    /\ cmds[k].first <= p /\ p <= cmds[k].end


\* the labels a command declares: the "(...)" lines of its block
LabelsOf(c) == {out[p] : p \in {q \in c.first..c.end : IsLabelLine(out[q])}}

\* C11: in one run (bootstrap and all commands of all files) the sets of
\* labels declared by any two distinct commands are disjoint.
C11_LabelUniqueness ==
    \A k1, k2 \in 1..Len(cmds) :
        k1 # k2 => LabelsOf(cmds[k1]) \cap LabelsOf(cmds[k2]) = {}

\* the command lines of a file: neither blank nor a whole-line comment
CommandLines(ls) == SelectSeq(cleanLines(ls), LAMBDA l : l # <<>>)

\* the command lines of files i.. of the run, in order
RECURSIVE AllCommandLines(_, _)
AllCommandLines(fd, i) ==
    IF i > Len(fd) THEN <<>>
    ELSE CommandLines(fd[i].lines) \o AllCommandLines(fd, i + 1)

\* the blocks written for user commands (the bootstrap is not one)
UserCmds == SelectSeq(cmds, LAMBDA c : c.type # "bootstrap")

\* C12: when the run ends the output holds the block of every command line
\* of every file exactly once, in source order, each block contiguous and
\* following the one before it; neither the first nor the last command line
\* of a file is skipped.
C12_EveryCommandTranslated ==
    pc = "closed" =>
        LET src == AllCommandLines(file_data, 1)
        IN  /\ Len(UserCmds) = Len(src)
            /\ \A k \in 1..Len(UserCmds) : UserCmds[k].f = Fields(src[k])
            /\ \A k \in 1..Len(cmds) :
                 cmds[k].first = (IF k = 1 THEN 1 ELSE cmds[k - 1].end + 1)
            /\ Len(out) = (IF cmds = <<>> THEN 0 ELSE cmds[Len(cmds)].end)

\* the invalid commands: the first word is no command mnemonic, or a push or
\* pop names an unknown segment, has a non-numeric index, or pops constant
Invalid(line) ==
    LET f == Fields(line)
        known == Len(f[1]) = 1
                 /\ f[1][1] \in CommandWords \cup ArithmeticCommandTypes
    IN  \/ ~known
        \/ /\ known /\ f[1][1] \in {"push", "pop"} /\ Len(f) >= 3
           /\ \/ ~(Len(f[2]) = 1 /\ f[2][1] \in SegmentTypes)
              \/ ~IsNumeric(f[3])
              \/ (f[1] = <<"pop">> /\ f[2] = <<"constant">>)

\* C13: a run over files holding an invalid command never ends normally, and
\* when a run fails its output holds no line of the offending command: it
\* ends with the block of the last command translated.
C13_InvalidCommandsFatal ==
    /\ pc = "closed" =>
         \A i \in 1..Len(file_data) :
            \A j \in 1..Len(CommandLines(file_data[i].lines)) :
                ~Invalid(CommandLines(file_data[i].lines)[j])
    /\ pc = "failed" =>
         Len(out) = (IF cmds = <<>> THEN 0 ELSE cmds[Len(cmds)].end)

\* C14: after a fatal error the output file is empty: it holds neither the
\* bootstrap nor the blocks of the commands translated before the error.
C14_NoPartialOutput ==
    pc = "failed" => out = <<>>


----------------------------------------------------------------------------
(* The assembler run on its own (projects/06/assembler.py as a script):    *)
(* out holds the lines of the .asm file, rom the lines it prints.          *)

\* every ordering of every non-empty subset of the letters A, D, M
DestOrders ==
    {<<"A">>, <<"D">>, <<"M">>, <<"A", "D">>, <<"D", "A">>, <<"A", "M">>,
     <<"M", "A">>, <<"D", "M">>, <<"M", "D">>, <<"A", "D", "M">>,
     <<"A", "M", "D">>, <<"D", "A", "M">>, <<"D", "M", "A">>,
     <<"M", "A", "D">>, <<"M", "D", "A">>}

JumpMnemonics == {"JGT", "JEQ", "JGE", "JLT", "JNE", "JLE", "JMP"}

\* the text "[dest=]comp[;jump]"; an absent dest is <<>>, an absent jump ""
CLine(d, c, j) ==
    (IF d = <<>> THEN <<>> ELSE d \o <<"=">>) \o <<c>>
    \o (IF j = "" THEN <<>> ELSE <<";", j>>)

CLines ==
    { CLine(d, c, j) : d \in DestOrders \cup {<<>>}, c \in comp_keys,
                       j \in JumpMnemonics \cup {""} }

\* addresses tried in "@n": around the 15-bit and the 16-bit limit
AddressSample == {0, 1, 2, 16, 255, 16384, 32767, 32768, 40000, 65535, 65536}

ALines == { At(ToStr(n)) : n \in AddressSample }

\* instructions that programs of several lines are built from
InstructionSample ==
    { At(ToStr(0)), At(ToStr(32767)), At(ToStr(65536)),
      CLine(<<"D">>, "M", ""), CLine(<<>>, "0", "JMP"),
      CLine(<<"A", "D">>, "D+1", "JEQ"), CLine(<<>>, "D+1", ""),
      CLine(<<"M">>, "D|M", "") }

MaxProgram == 2

RECURSIVE ProgramsOf(_)
ProgramsOf(n) ==
    IF n = 0 THEN {<<>>}
    ELSE { Append(q, i) : q \in ProgramsOf(n - 1), i \in InstructionSample }

\* a program whose label END stands before instruction 16 and that uses
\* the variables i and j
LateLabelProgram ==
    [k \in 1..16 |-> IF k = 1 THEN At(<<"i">>) ELSE CLine(<<"D">>, "M", "")]
    \o << Lbl(<<"END">>), At(<<"j">>), At(<<"END">>),
          CLine(<<>>, "0", "JMP") >>

\* programs with symbols, comments and blank lines
SymbolicPrograms ==
    { << <<"//", " ", "count">>, <<>>, Lbl(<<"LOOP">>), At(<<"i">>),
         CLine(<<"M">>, "M+1", "") \o <<" ", "//", "i++">>, At(<<"LOOP">>),
         CLine(<<>>, "0", "JMP") >>,
      << At(<<"SCREEN">>), CLine(<<"D">>, "A", ""), At(<<"R13">>),
         CLine(<<"M">>, "D", ""), At(<<"END">>), CLine(<<>>, "D", "JGT"),
         Lbl(<<"END">>) >>,
      LateLabelProgram }

AsmFiles ==
    { <<l>> : l \in CLines \cup ALines }
    \cup UNION { ProgramsOf(n) : n \in 0..MaxProgram }
    \cup SymbolicPrograms

\* the state when the script has read the file
AsmInit ==
    /\ out \in AsmFiles
    /\ pc = "asm"
    /\ rom = <<>>
    /\ DEBUG = FALSE
    /\ nobootstrap = "True"
    /\ dir = [isdir |-> FALSE, files |-> <<>>]
    /\ ram0 = EmptyRam
    /\ file_data = <<>>
    /\ lines = <<>>
    /\ line_index = 0
    /\ labelCounter = 0
    /\ file_name = <<>>
    /\ file_index = 1
    /\ cmds = <<>>
    /\ A = 0 /\ D = 0 /\ PC = 0
    /\ ram = EmptyRam
    /\ steps = 0
    /\ cur = [k |-> 0, ram |-> EmptyRam, log |-> <<>>]
    /\ done = <<>>
    /\ tokens = <<>>
    /\ current_token_index = 0
    /\ curr_line = 0 /\ curr_char = 0
    /\ stack = <<>>
    /\ exc = "none"
    /\ parseTree = NoTree

\* the script runs to its end and prints binary_output
AsmPrint ==
    /\ pc = "asm"
    /\ ~TranslateRaises(Resolved(out))
    /\ rom' = Assembler(out)
    /\ pc' = "asm_done"
    /\ UNCHANGED <<curr_line, curr_char, tokens, current_token_index, stack,
                   exc, parseTree,
                   DEBUG, nobootstrap, dir, ram0, file_data, lines,
                   line_index, labelCounter, file_name, out, file_index,
                   cmds, A, D, PC, ram, steps, cur, done>>

\* an exception in translate_to_binary ends the script: nothing is printed
AsmRaise ==
    /\ pc = "asm"
    /\ TranslateRaises(Resolved(out))
    /\ pc' = "asm_failed"
    /\ UNCHANGED <<curr_line, curr_char, tokens, current_token_index, stack,
                   exc, parseTree,
                   DEBUG, nobootstrap, dir, ram0, file_data, lines,
                   line_index, labelCounter, file_name, out, file_index,
                   cmds, rom, A, D, PC, ram, steps, cur, done>>

AsmNext ==
    \/ AsmPrint
    \/ AsmRaise

AsmSpec == AsmInit /\ [][AsmNext]_vars


----------------------------------------------------------------------------
(* Properties of the assembler *)

\* the comp mnemonics that contain the letter M
MComps == {"M", "!M", "-M", "M+1", "M-1", "D+M", "D-M", "M-D", "D&M", "D|M"}

\* "[dest=]comp[;jump]" with comp one of the 28 mnemonics and dest and
\* jump, when present, mnemonics of the tables
TableCLines ==
    { CLine(d, c, j) : d \in (dest_keys \ {<<"null">>}) \cup {<<>>},
                       c \in comp_keys, j \in JumpMnemonics \cup {""} }

NoBits == <<"0", "0", "0">>

\* C15: for every [dest=]comp[;jump] of table mnemonics the assembler emits
\* 111 a cccccc ddd jjj with the table codes, 000 for a missing dest, 000
\* for a missing jump, and a = 1 exactly when comp contains M.
C15_CInstructionEncoding ==
    (pc # "asm" /\ Len(out) = 1 /\ out[1] \in TableCLines) =>
        LET e == FirstAt(out[1], "=")
            s == FirstAt(out[1], ";")
            c == out[1][e + 1]
        IN  /\ pc = "asm_done"
            /\ rom = << <<"1", "1", "1", IF c \in MComps THEN "1" ELSE "0">>
                        \o comp_lookup(c)
                        \o (IF e = 0 THEN NoBits
                            ELSE dest_lookup(SubSeq(out[1], 1, e - 1)))
                        \o (IF s = 0 THEN NoBits
                            ELSE jump_lookup(out[1][s + 1])) >>

\* the dest bits of a set of letters: A -> 100, D -> 010, M -> 001, OR-ed
DestBits(d) ==
    << IF Has(d, "A") THEN "1" ELSE "0", IF Has(d, "D") THEN "1" ELSE "0",
       IF Has(d, "M") THEN "1" ELSE "0" >>

\* C16: every ordering of every non-empty subset of {A, D, M}, written as
\* the dest of a C-instruction, is accepted and encoded as the OR of the
\* bits of its letters.
C16_DestOrderInsensitive ==
    (pc # "asm" /\ Len(out) = 1 /\ out[1] \in CLines /\ Has(out[1], "=")) =>
        /\ pc = "asm_done"
        /\ Len(rom) = 1
        /\ SubSeq(rom[1], 11, 13) =
              DestBits(SubSeq(out[1], 1, FirstAt(out[1], "=") - 1))

\* C17: "@n" with 0 <= n <= 32767 is encoded as the 16-bit binary of n with
\* leading bit 0; for n > 32767 assembling fails and no line is emitted.
C17_AInstructionRange ==
    (pc # "asm" /\ Len(out) = 1 /\ out[1] \in ALines) =>
        LET n == ToInt(Tail(out[1]))
        IN  IF n <= 32767
            THEN /\ pc = "asm_done"
                 /\ Len(rom) = 1 /\ Len(rom[1]) = 16
                 /\ rom[1][1] = "0"
                 /\ BinaryValue(rom[1]) = n
            ELSE pc = "asm_failed" /\ rom = <<>>

\* C18: the output of translate_to_binary has one line per instruction
\* handed to it, in the same order (the binary of n for "@n", a word
\* starting with 111 for a C-instruction), each of exactly 16 characters
\* 0 or 1.
C18_OneLinePerInstruction ==
    pc = "asm_done" =>
        LET data == Resolved(out)
        IN  /\ Len(rom) = Len(data)
            /\ \A i \in 1..Len(rom) :
                 /\ Len(rom[i]) = 16
                 /\ \A b \in 1..Len(rom[i]) : rom[i][b] \in {"0", "1"}
                 /\ i <= Len(data) =>
                      IF IsALine(data[i])
                      THEN BinaryValue(rom[i]) = ToInt(Tail(data[i]))
                      ELSE SubSeq(rom[i], 1, 3) = <<"1", "1", "1">>


----------------------------------------------------------------------------
(* The Jack compilation engine (projects/10/SyntaxAnalyser.py).  Every     *)
(* compile method is the sequence of its steps; Run executes the steps on  *)
(* tokens from a token index.  A step that raises leaves the elements      *)
(* already added to the tree and the tokens already consumed as they are:  *)
(* the engine never rolls back.                                            *)

\* Token(type, value)
Token(type, value) == [type |-> type, value |-> value]

\* an expected token of check_token: Token(type, value) or Token(type, None)
Expect(type, value) == [type |-> type, any |-> FALSE, value |-> value]
ExpectType(type) == [type |-> type, any |-> TRUE, value |-> ""]

\* check_token does not raise
Matches(tok, e) == tok.type = e.type /\ (e.any \/ tok.value = e.value)

\* the steps methods are made of
check_tokens(expected) == << [op |-> "check", of |-> expected] >>
check_token(e) == check_tokens({e})
\* elem = ET.SubElement(element, <type>); elem.text = value; self.advance()
AddToken == << [op |-> "take"] >>
\* element = ET.SubElement(element, tag), then the steps under it
SubElement(tag, body) == << [op |-> "elem", tag |-> tag, body |-> body] >>
\* getattr(self, name)(element)
Call(name) == << [op |-> "call", f |-> name] >>
\* self.current_token (k = 0) or self.next_token (k = 1) is read
Read_token(k) == << [op |-> "peek", k |-> k] >>
compileMultiple(func) == << [op |-> "multiple", f |-> func] >>
compileOr(funcs) == << [op |-> "or", fs |-> funcs] >>
compileOptional(func) == << [op |-> "optional", f |-> func] >>

compileIdentifier == check_token(ExpectType("identifier")) \o AddToken
compileSymbol(symbol) == check_token(Expect("symbol", symbol)) \o AddToken
compileKeyword(keyword) == check_token(Expect("keyword", keyword)) \o AddToken
compileIntegerConstant == check_token(ExpectType("intConstant")) \o AddToken
compileStringConstant == check_token(ExpectType("stringConstant")) \o AddToken

\* 'class' className '{' classVarDec* subroutineDec* '}'; the root element
\* is made once the first check has passed
compileClass ==
    check_token(Expect("keyword", "class")) \o AddToken
    \o compileIdentifier
    \o compileSymbol("{")
    \o compileMultiple("compileClassVarDec")
    \o compileMultiple("compileSubroutineDec")
    \o check_token(Expect("symbol", "}")) \o AddToken

TypeTokens ==
    {Expect("keyword", "int"), Expect("keyword", "char"),
     Expect("keyword", "boolean"), ExpectType("identifier")}

compileType == check_tokens(TypeTokens) \o AddToken

compileEndVar == check_token(Expect("symbol", ",")) \o AddToken \o compileIdentifier

compileClassVarDec ==
    check_tokens({Expect("keyword", "static"), Expect("keyword", "field")})
    \o SubElement("classVarDec",
          AddToken \o compileType
          \o check_token(ExpectType("identifier")) \o AddToken
          \o compileMultiple("compileEndVar")
          \o check_token(Expect("symbol", ";")) \o AddToken)

compileSubroutineBody ==
    compileSymbol("{") \o compileMultiple("compileVarDec")
    \o Call("compileStatements") \o compileSymbol("}")

compileParameter == compileSymbol(",") \o compileType \o compileIdentifier

compileParameterListBase ==
    compileType \o compileIdentifier \o compileMultiple("compileParameter")

compileParameterList ==
    SubElement("parameterList", compileOptional("compileParameterListBase"))

compileSubroutineDec ==
    check_tokens({Expect("keyword", "constructor"),
                  Expect("keyword", "function"), Expect("keyword", "method")})
    \o SubElement("subroutineDec",
          AddToken
          \o check_tokens(TypeTokens \cup {Expect("keyword", "void")})
          \o AddToken
          \o compileIdentifier
          \o compileSymbol("(")
          \o compileParameterList
          \o compileSymbol(")")
          \o SubElement("subroutineBody", compileSubroutineBody))

compileVarDec ==
    check_token(Expect("keyword", "var"))
    \o SubElement("varDec",
          compileKeyword("var") \o compileType \o compileIdentifier
          \o compileMultiple("compileEndVar") \o compileSymbol(";"))

compileVarNameWithBoxedExpression ==
    compileIdentifier \o compileSymbol("[") \o Call("compileExpression")
    \o compileSymbol("]")

compileStatements ==
    SubElement("statements", compileMultiple("compileStatement"))

compileStatement ==
    compileOr(<<"compileLet", "compileIf", "compileWhile", "compileDo",
                "compileReturn">>)

compileBoxedExpression ==
    Read_token(0) \o compileSymbol("[") \o Read_token(0)
    \o Call("compileExpression") \o Read_token(0) \o compileSymbol("]")
    \o Read_token(0)

compileBracketedExpression ==
    compileSymbol("(") \o Call("compileExpression") \o compileSymbol(")")

compileLet ==
    check_token(Expect("keyword", "let"))
    \o SubElement("letStatement",
          compileKeyword("let") \o compileIdentifier
          \o compileOptional("compileBoxedExpression")
          \o compileSymbol("=") \o Read_token(0)
          \o Call("compileExpression") \o compileSymbol(";"))

compileElse ==
    compileKeyword("else") \o compileSymbol("{") \o Call("compileStatements")
    \o compileSymbol("}")

compileIf ==
    check_token(Expect("keyword", "if"))
    \o SubElement("ifStatement",
          compileKeyword("if") \o compileBracketedExpression
          \o compileSymbol("{") \o Call("compileStatements")
          \o compileSymbol("}") \o compileOptional("compileElse"))

compileWhile ==
    check_token(Expect("keyword", "while"))
    \o SubElement("whileStatement",
          compileKeyword("while") \o compileBracketedExpression
          \o compileSymbol("{") \o Call("compileStatements")
          \o compileSymbol("}"))

compileDo ==
    check_token(Expect("keyword", "do"))
    \o SubElement("doStatement",
          compileKeyword("do") \o Call("compileSubroutineCall")
          \o compileSymbol(";"))

compileReturn ==
    check_token(Expect("keyword", "return"))
    \o SubElement("returnStatement",
          compileKeyword("return") \o compileOptional("compileExpression")
          \o compileSymbol(";"))

\* term, then compileOptional(compileOpTerm)
compileExpression ==
    Read_token(0)
    \o SubElement("expression",
          Call("compileTerm") \o compileOptional("compileOpTerm"))

compileTerm ==
    SubElement("term",
        Read_token(0) \o Read_token(1)
        \o << [op |-> "ifnext", value |-> "[",
               then |-> Call("compileVarNameWithBoxedExpression"),
               else |-> compileOr(<<"compileSubroutineCall",
                                    "compileIntegerConstant",
                                    "compileStringConstant",
                                    "compileKeywordConstant",
                                    "compileVarName",
                                    "compileBracketedExpression",
                                    "unaryOpTerm">>)] >>)

OpTokens ==
    {Expect("symbol", o) : o \in {"+", "-", "*", "/", "&", "|", "<", ">", "="}}

compileOp == check_tokens(OpTokens) \o AddToken

compileUnaryOp ==
    check_tokens({Expect("symbol", "-"), Expect("symbol", "~")}) \o AddToken

unaryOpTerm == compileUnaryOp \o Call("compileTerm")

compileOpTerm == Read_token(0) \o compileOp \o Call("compileTerm")

compileSubroutineCall ==
    compileOr(<<"compileExpressionListSubroutineCall",
                "compileExpressionListCall">>)

compileExpressionMultiple == compileSymbol(",") \o Call("compileExpression")

compileExpressionListBase ==
    Call("compileExpression") \o compileMultiple("compileExpressionMultiple")

compileExpressionList == compileOptional("compileExpressionListBase")

\* raises unless the next token is the symbol "."
compileExpressionListSubroutineCall ==
    Read_token(1)
    \o << [op |-> "neednext", e |-> Expect("symbol", ".")] >>
    \o compileOr(<<"compileClassName", "compileVarName">>)
    \o compileSymbol(".") \o compileIdentifier \o compileSymbol("(")
    \o compileExpressionList \o compileSymbol(")")

\* the first check is made on the current token, the subroutine name
compileExpressionListCall ==
    check_token(Expect("symbol", "("))
    \o compileIdentifier \o compileSymbol("(") \o compileExpressionList
    \o compileSymbol(")")

compileKeywordConstant ==
    check_tokens({Expect("keyword", k) : k \in {"true", "false", "null", "this"}})
    \o check_token(ExpectType("keyword")) \o AddToken

\* getattr(self, func.__name__): the steps of the method of that name
Method(name) ==
    CASE name = "compileClassVarDec" -> compileClassVarDec
      [] name = "compileSubroutineDec" -> compileSubroutineDec
      [] name = "compileEndVar" -> compileEndVar
      [] name = "compileParameterListBase" -> compileParameterListBase
      [] name = "compileParameter" -> compileParameter
      [] name = "compileVarDec" -> compileVarDec
      [] name = "compileClassName" -> compileIdentifier
      [] name = "compileVarName" -> compileIdentifier
      [] name = "compileVarNameWithBoxedExpression" ->
            compileVarNameWithBoxedExpression
      [] name = "compileStatements" -> compileStatements
      [] name = "compileStatement" -> compileStatement
      [] name = "compileLet" -> compileLet
      [] name = "compileIf" -> compileIf
      [] name = "compileElse" -> compileElse
      [] name = "compileWhile" -> compileWhile
      [] name = "compileDo" -> compileDo
      [] name = "compileReturn" -> compileReturn
      [] name = "compileBoxedExpression" -> compileBoxedExpression
      [] name = "compileBracketedExpression" -> compileBracketedExpression
      [] name = "compileExpression" -> compileExpression
      [] name = "compileTerm" -> compileTerm
      [] name = "compileOpTerm" -> compileOpTerm
      [] name = "unaryOpTerm" -> unaryOpTerm
      [] name = "compileSubroutineCall" -> compileSubroutineCall
      [] name = "compileExpressionListSubroutineCall" ->
            compileExpressionListSubroutineCall
      [] name = "compileExpressionListCall" -> compileExpressionListCall
      [] name = "compileExpressionListBase" -> compileExpressionListBase
      [] name = "compileExpressionMultiple" -> compileExpressionMultiple
      [] name = "compileIntegerConstant" -> compileIntegerConstant
      [] name = "compileStringConstant" -> compileStringConstant
      [] name = "compileKeywordConstant" -> compileKeywordConstant

\* the outcome of a step on the token of index i (from 1): st is "ok",
\* "ParseException" or "IndexError" (a token read past the end of tokens),
\* kids the elements added to the current element
Outcome(st, i, kids) == [st |-> st, i |-> i, kids |-> kids]

IsTokenStep(step) == step.op \in {"check", "take", "peek", "neednext"}

TokenOutcome(step, i) ==
    CASE step.op = "check" ->
            IF i > Len(tokens) THEN Outcome("IndexError", i, <<>>)
            ELSE IF \E e \in step.of : Matches(tokens[i], e)
            THEN Outcome("ok", i, <<>>)
            ELSE Outcome("ParseException", i, <<>>)
      [] step.op = "take" ->
            IF i > Len(tokens) THEN Outcome("IndexError", i, <<>>)
            ELSE Outcome("ok", i + 1,
                         << Node(tokens[i].type, tokens[i].value, <<>>) >>)
      [] step.op = "peek" ->
            IF i + step.k > Len(tokens) THEN Outcome("IndexError", i, <<>>)
            ELSE Outcome("ok", i, <<>>)
      [] step.op = "neednext" ->
            IF Matches(tokens[i + 1], step.e) THEN Outcome("ok", i, <<>>)
            ELSE Outcome("ParseException", i, <<>>)

\* a method call in progress: the steps of the method, the step to run
\* next, and the elements it has added so far; kind tells what the caller
\* does with an exception ("call" and "elem" let it through), from the
\* value of current_token_index when the rule now running was called, had
\* the number of elements the frame held at that moment
Frame(kind, tag, fs, body, from) ==
    [kind |-> kind, tag |-> tag, fs |-> fs, n |-> 1, body |-> body,
     pos |-> 1, kids |-> <<>>, from |-> from, had |-> 0]

\* the call a step makes
Entered(step, i) ==
    CASE step.op = "elem" -> Frame("elem", step.tag, <<>>, step.body, i - 1)
      [] step.op = "call" -> Frame("call", "", <<>>, Method(step.f), i - 1)
      [] step.op = "optional" ->
            Frame("optional", "", <<>>, Method(step.f), i - 1)
      [] step.op = "multiple" ->
            Frame("multiple", "", <<step.f>>, Method(step.f), i - 1)
      [] step.op = "or" ->
            Frame("or", "", step.fs, Method(step.fs[1]), i - 1)
      [] step.op = "ifnext" ->
            Frame("call", "", <<>>,
                  IF tokens[i + 1].value = step.value THEN step.then
                  ELSE step.else,
                  i - 1)

Top == stack[Len(stack)]
AtEnd == Top.pos > Len(Top.body)
Here == Top.body[Top.pos]

\* Yield that empties the element a method built
Yield_EmptyElement(f) ==
    IF f.kind = "elem" THEN << Node(f.tag, "", <<>>) >> ELSE f.kids

\* what a call leaves in the element of its caller, whether it returns or
\* raises: elements are added in place and never taken back
Yield(f) == IF f.kind = "elem" THEN << Node(f.tag, "", f.kids) >> ELSE f.kids

Pop ==
    LET below == SubSeq(stack, 1, Len(stack) - 1)
    IN  [below EXCEPT ![Len(below)].kids = @ \o Yield(Top)]

\* the root element exists once compileClass has checked 'class'
HasRoot == Len(tokens) > 0 /\ Matches(tokens[1], Expect("keyword", "class"))

----------------------------------------------------------------------------
(* The syntax analyser alone: the tokens of one Jack file are compiled and *)
(* the tree is written.                                                    *)

KW(v) == Token("keyword", v)
SY(v) == Token("symbol", v)
ID(v) == Token("identifier", v)
INT(v) == Token("intConstant", v)

\* the most (op term) pairs of a generated expression
MaxOps == 3

TermSample == {ID("a"), INT("1")}
OpSample == {"+", "<"}

\* t0 op1 t1 ... opk tk as tokens
ExprTokens(ts, ops) ==
    [n \in 1..(2 * Len(ops) + 1) |->
        IF n % 2 = 1 THEN ts[(n + 1) \div 2] ELSE SY(ops[n \div 2])]

Exprs(k) ==
    {ExprTokens(ts, ops) : ts \in [1..(k + 1) -> TermSample],
                           ops \in [1..k -> OpSample]}

ReturnTokens == <<KW("return"), SY(";")>>

StatementSample ==
    { <<>>,
      <<KW("do"), ID("run"), SY("("), SY(")"), SY(";")>>,
      <<KW("do"), ID("Main"), SY("."), ID("run"), SY("("), SY(")"), SY(";")>>,
      <<KW("do"), ID("Main"), SY("."), ID("run"), SY("("), ID("a"), SY(","),
        INT("1"), SY(")"), SY(";")>>,
      <<KW("let"), ID("x"), SY("["), INT("1"), SY("]"), SY("="), ID("a"),
        SY(";")>>,
      <<KW("let"), ID("x"), SY("="), ID("a"), SY("["), INT("1"), SY("]"),
        SY(";")>>,
      <<KW("let"), ID("x"), SY("="), SY("-"), ID("a"), SY(";")>>,
      <<KW("let"), ID("x"), SY("="), SY("("), ID("a"), SY("+"), INT("1"),
        SY(")"), SY("<"), INT("1"), SY(";")>>,
      <<KW("let"), ID("x"), SY("="), KW("true"), SY(";")>>,
      <<KW("if"), SY("("), ID("a"), SY(")"), SY("{"), KW("return"), SY(";"),
        SY("}"), KW("else"), SY("{"), SY("}")>>,
      <<KW("while"), SY("("), ID("a"), SY("<"), INT("1"), SY(")"), SY("{"),
        SY("}")>> }

\* function void main() { body }
Subroutine(body) ==
    <<KW("function"), KW("void"), ID("main"), SY("("), SY(")"), SY("{")>>
    \o body \o <<SY("}")>>

\* method int get(int a, Main b) { var int x, y; return x; }
MethodTokens ==
    <<KW("method"), KW("int"), ID("get"), SY("("), KW("int"), ID("a"),
      SY(","), ID("Main"), ID("b"), SY(")"), SY("{"), KW("var"), KW("int"),
      ID("x"), SY(","), ID("y"), SY(";"), KW("return"), ID("x"), SY(";"),
      SY("}")>>

ClassVarDecSample ==
    { <<>>,
      <<KW("static"), KW("int"), ID("x"), SY(";")>>,
      <<KW("field"), ID("Main"), ID("x"), SY(","), ID("y"), SY(";"),
        KW("static"), KW("boolean"), ID("z"), SY(";")>> }

\* class Main { decs subs }
Class(decs, subs) ==
    <<KW("class"), ID("Main"), SY("{")>> \o decs \o subs \o <<SY("}")>>

\* class Main { function void main() { let x = e; return; } }
LetClass(e) ==
    Class(<<>>, Subroutine(<<KW("let"), ID("x"), SY("=")>> \o e
                           \o <<SY(";")>> \o ReturnTokens))

\* S6: class Main { function void main() { return; } }
MainClass == Class(<<>>, Subroutine(ReturnTokens))

\* the four terms that start with an identifier: a variable, an array
\* entry, a call of a subroutine, a call of a subroutine of a class
TermForms ==
    { <<ID("a")>>,
      <<ID("a"), SY("["), INT("1"), SY("]")>>,
      <<ID("run"), SY("("), SY(")")>>,
      <<ID("run"), SY("("), ID("a"), SY(")")>>,
      <<ID("Main"), SY("."), ID("run"), SY("("), SY(")")>>,
      <<ID("Main"), SY("."), ID("run"), SY("("), ID("a"), SY(")")>> }

\* the terms that are calls
CallForms == {e \in TermForms : SY("(") \in {e[n] : n \in 1..Len(e)}}

\* class Main { function void main() { do c; return; } }
DoClass(c) ==
    Class(<<>>, Subroutine(<<KW("do")>> \o c \o <<SY(";")>> \o ReturnTokens))

\* classes the Jack grammar derives
WellFormedClasses ==
    {LetClass(e) : e \in TermForms} \cup {DoClass(c) : c \in CallForms} \cup
    {Class(decs, Subroutine(st \o ReturnTokens) \o m) :
        decs \in ClassVarDecSample, st \in StatementSample,
        m \in {<<>>, MethodTokens}}
    \cup {Class(decs, <<>>) : decs \in ClassVarDecSample}
    \cup UNION {{LetClass(e) : e \in Exprs(k)} : k \in 0..MaxOps}

\* token lists no class derives: a file cut short, a file of no tokens, a
\* file that does not start with 'class', declarations without their
\* names, a call without its closing parenthesis, an expression without a
\* term
BrokenClasses ==
    {Class(decs, Subroutine(st \o ReturnTokens)) :
        decs \in {<<>>, <<KW("static"), KW("int")>>,
                  <<KW("static"), KW("int"), SY(";")>>,
                  <<KW("field"), KW("int"), ID("x"), SY(",")>>},
        st \in {<<>>, <<KW("var"), KW("int")>>,
                <<KW("var"), KW("int"), SY(";")>>,
                <<KW("do"), ID("Main"), SY("."), ID("run"), SY("("),
                  SY(";")>>,
                <<KW("return"), ID("Main"), SY("."), ID("run"), SY("("),
                  SY(";")>>,
                <<KW("let"), ID("x"), SY("="), SY(";")>>,
                <<KW("let"), ID("x"), SY("="), ID("a"), SY("+"),
                  SY(";")>>}}

IllFormed ==
    {SubSeq(MainClass, 1, n) : n \in 0..(Len(MainClass) - 1)}
    \cup {Tail(MainClass), <<KW("class"), SY("{"), SY("}")>>}
    \cup (BrokenClasses \ {MainClass})
    \cup {SubSeq(LetClass(<<ID("a")>>), 1, n) : n \in 12..14}

TokenInputs == WellFormedClasses \cup IllFormed

JackInit ==
    /\ tokens \in TokenInputs
    /\ current_token_index = 0
    /\ curr_line = 0 /\ curr_char = 0
    /\ stack = << Frame("call", "", <<>>, compileClass, 0) >>
    /\ exc = "none"
    /\ parseTree = NoTree
    /\ pc = "jack"
    /\ out = <<>>
    /\ rom = <<>>
    /\ DEBUG = TRUE
    /\ nobootstrap = "None"
    /\ dir = [isdir |-> FALSE, files |-> <<>>]
    /\ ram0 = EmptyRam
    /\ file_data = <<>>
    /\ lines = <<>>
    /\ line_index = 0
    /\ labelCounter = 0
    /\ file_name = <<>>
    /\ file_index = 1
    /\ cmds = <<>>
    /\ A = 0 /\ D = 0 /\ PC = 0
    /\ ram = EmptyRam
    /\ steps = 0
    /\ cur = [k |-> 0, ram |-> EmptyRam, log |-> <<>>]
    /\ done = <<>>

JackUnchanged ==
    UNCHANGED <<tokens, curr_line, curr_char, DEBUG, nobootstrap, dir, ram0,
                file_data, lines, line_index, labelCounter, file_name, out, file_index, cmds,
                rom, A, D, PC, ram, steps, cur, done>>

\* check_token, a read of current_token or next_token, or a token added
\* to the element followed by advance()
TokenStep ==
    /\ pc = "jack" /\ exc = "none" /\ ~AtEnd /\ IsTokenStep(Here)
    /\ LET r == TokenOutcome(Here, current_token_index + 1)
       IN  /\ exc' = IF r.st = "ok" THEN "none" ELSE r.st
           /\ current_token_index' = r.i - 1
           /\ stack' = [stack EXCEPT
                          ![Len(stack)].pos = IF r.st = "ok" THEN @ + 1 ELSE @,
                          ![Len(stack)].kids = @ \o r.kids]
    /\ UNCHANGED <<pc, parseTree>>
    /\ JackUnchanged

\* a method, or a rule under compileMultiple, compileOr or compileOptional,
\* is called
Enter ==
    /\ pc = "jack" /\ exc = "none" /\ ~AtEnd /\ ~IsTokenStep(Here)
    /\ stack' = Append([stack EXCEPT ![Len(stack)].pos = @ + 1],
                       Entered(Here, current_token_index + 1))
    /\ UNCHANGED <<pc, exc, current_token_index, parseTree>>
    /\ JackUnchanged

\* a method returns; under compileMultiple the rule is run again
Return ==
    /\ pc = "jack" /\ exc = "none" /\ AtEnd /\ Len(stack) > 1
    /\ stack' = IF Top.kind = "multiple"
                THEN [stack EXCEPT ![Len(stack)].pos = 1,
                                   ![Len(stack)].from = current_token_index,
                                   ![Len(stack)].had = Len(Top.kids)]
                ELSE Pop
    /\ UNCHANGED <<pc, exc, current_token_index, parseTree>>
    /\ JackUnchanged

\* an exception leaves a method: compileOptional and compileMultiple end
\* on ParseException, compileOr goes to its next rule and, when none is
\* left, prints the current token and raises ParseException
Unwind ==
    /\ pc = "jack" /\ exc # "none" /\ Len(stack) > 1
    /\ LET caught == exc = "ParseException"
                     /\ Top.kind \in {"optional", "multiple", "or"}
           more == Top.kind = "or" /\ Top.n < Len(Top.fs)
       IN  IF caught /\ more
           THEN /\ stack' = [stack EXCEPT
                               ![Len(stack)].n = @ + 1,
                               ![Len(stack)].body = Method(Top.fs[Top.n + 1]),
                               ![Len(stack)].pos = 1,
                               ![Len(stack)].from = current_token_index,
                               ![Len(stack)].had = Len(Top.kids)]
                /\ exc' = "none"
           ELSE /\ stack' = Pop
                /\ exc' = IF ~caught THEN exc
                          ELSE IF Top.kind # "or" THEN "none"
                          ELSE IF current_token_index >= Len(tokens)
                          THEN "IndexError"
                          ELSE "ParseException"
    /\ UNCHANGED <<pc, current_token_index, parseTree>>
    /\ JackUnchanged

\* compileClass(None) has returned or raised
Compiled == pc = "jack" /\ Len(stack) = 1 /\ (exc # "none" \/ AtEnd)

\* compile() returns, after printing the ParseException if there was one,
\* and write_XML prints the tree
write_XML ==
    /\ Compiled
    /\ exc # "IndexError"
    /\ HasRoot
    /\ parseTree' = Node("class", "", Top.kids)
    /\ pc' = "jack_done"
    /\ UNCHANGED <<stack, exc, current_token_index>>
    /\ JackUnchanged

\* compile() lets the IndexError through, or write_XML is handed None
analyse_raises ==
    /\ Compiled
    /\ exc = "IndexError" \/ ~HasRoot
    /\ parseTree' = IF HasRoot THEN Node("class", "", Top.kids) ELSE NoTree
    /\ pc' = "jack_crashed"
    /\ UNCHANGED <<stack, exc, current_token_index>>
    /\ JackUnchanged

JackNext ==
    TokenStep \/ Enter \/ Return \/ Unwind \/ write_XML \/ analyse_raises

JackSpec == JackInit /\ [][JackNext]_vars

----------------------------------------------------------------------------
(* Properties of the syntax analyser *)

\* the leaf of a token
Leaf(tok) == Node(tok.type, tok.value, <<>>)

\* the n-th child of a node, NoTree when it has fewer
Child(node, n) == IF n <= Len(node.kids) THEN node.kids[n] ELSE NoTree

\* how many tokens are keywords among ks
KeywordCount(ks) ==
    Cardinality({n \in 1..Len(tokens) :
                    tokens[n].type = "keyword" /\ tokens[n].value \in ks})

\* C19: whenever there is a tree its root is labelled class; and once the
\* analysis of a well-formed class has ended, the children of the root are,
\* in order, keyword class, the identifier of the class name, symbol {, one
\* classVarDec node per static/field declaration, one subroutineDec node
\* per subroutine, symbol }, and nothing else.
C19_ClassTreeShape ==
    /\ parseTree # NoTree => parseTree.tag = "class"
    /\ (pc # "jack" /\ tokens \in WellFormedClasses) =>
          LET nv == KeywordCount({"static", "field"})
              ns == KeywordCount({"constructor", "function", "method"})
              kids == parseTree.kids
          IN  /\ Len(kids) = 4 + nv + ns
              /\ kids[1] = Leaf(KW("class"))
              /\ kids[2] = Leaf(tokens[2])
              /\ kids[3] = Leaf(SY("{"))
              /\ \A n \in 4..(3 + nv) : kids[n].tag = "classVarDec"
              /\ \A n \in (4 + nv)..(3 + nv + ns) :
                    kids[n].tag = "subroutineDec"
              /\ kids[4 + nv + ns] = Leaf(SY("}"))

\* the tokens between "let x =" and "; return; } }" of a LetClass
LetExpression == SubSeq(tokens, 13, Len(tokens) - 5)

\* the expression node of t0 op1 t1 ... opk tk: the k+1 term nodes
\* interleaved with the k operator symbols
ExpressionNode(e) ==
    Node("expression", "",
         [n \in 1..Len(e) |->
             IF n % 2 = 1 THEN Node("term", "", << Leaf(e[n]) >>)
             ELSE Leaf(e[n])])

\* the first statement of the first subroutine of the class
FirstStatement == Child(Child(Child(Child(parseTree, 4), 7), 2), 1)

\* C20: for every k >= 0, once "let x = t0 op1 t1 ... opk tk;" has been
\* analysed the expression has been consumed completely: the let statement
\* holds one expression node whose children are the k+1 term nodes
\* interleaved with the k operator symbols in source order, followed by
\* the symbol ";".
C20_ExpressionRepetition ==
    (/\ pc # "jack"
     /\ Len(tokens) >= 18
     /\ LetExpression \in UNION {Exprs(k) : k \in 0..MaxOps}
     /\ tokens = LetClass(LetExpression)) =>
        /\ FirstStatement.tag = "letStatement"
        /\ Len(FirstStatement.kids) = 5
        /\ FirstStatement.kids[4] = ExpressionNode(LetExpression)
        /\ FirstStatement.kids[5] = Leaf(SY(";"))

\* the kinds of token, the tags of the leaves that carry a token
TokenTags ==
    {"keyword", "symbol", "identifier", "intConstant", "stringConstant"}

RECURSIVE Leaves(_)
\* the tokens carried by the leaves of a sequence of nodes, in document
\* order
Leaves(nodes) ==
    IF nodes = <<>> THEN <<>>
    ELSE LET last == nodes[Len(nodes)]
         IN  Leaves(SubSeq(nodes, 1, Len(nodes) - 1))
             \o (IF last.tag \in TokenTags
                 THEN << Token(last.tag, last.text) >>
                 ELSE Leaves(last.kids))

\* C21: a term that starts with an identifier, and the call of a do
\* statement, is accepted and consumed completely in each of its forms:
\* identifier, identifier [ expression ], identifier ( expressionList ),
\* identifier . identifier ( expressionList ).  The let statement holds
\* one expression of one term whose leaves are the tokens of the form,
\* then ";"; the do statement holds do, the tokens of the call, then ";".
C21_TermLookahead ==
    /\ (pc # "jack" /\ Len(tokens) >= 18
        /\ LetExpression \in TermForms /\ tokens = LetClass(LetExpression)) =>
          LET e == LetExpression
              term == Child(Child(FirstStatement, 4), 1)
          IN  /\ FirstStatement.tag = "letStatement"
              /\ Len(FirstStatement.kids) = 5
              /\ FirstStatement.kids[5] = Leaf(SY(";"))
              /\ FirstStatement.kids[4].tag = "expression"
              /\ Len(FirstStatement.kids[4].kids) = 1
              /\ term.tag = "term"
              /\ Leaves(<<term>>) = e
              /\ Len(e) = 1 => term.kids = << Leaf(e[1]) >>
              /\ (Len(e) > 1 /\ e[2] = SY("[")) =>
                    /\ Len(term.kids) = 4
                    /\ term.kids[3].tag = "expression"
    /\ \A c \in CallForms :
          (pc # "jack" /\ tokens = DoClass(c)) =>
              /\ FirstStatement.tag = "doStatement"
              /\ Leaves(<<FirstStatement>>) = <<KW("do")>> \o c \o <<SY(";")>>

\* compileMultiple, compileOr or compileOptional catches the
\* ParseException of its rule and goes on
Swallows ==
    /\ pc = "jack" /\ Len(stack) > 1
    /\ exc = "ParseException" /\ exc' = "none"
    /\ Top.kind \in {"optional", "multiple", "or"}

\* the parse succeeded: compile() returned without a ParseException
Accepted == pc = "jack_done" /\ exc = "none"

\* C22: a ParseException is caught by compileOptional, compileMultiple or
\* compileOr only when the rule that raised it has consumed no token; and
\* so no token list outside the grammar ends as a successful parse.
C22_MidRuleFailureFatal ==
    /\ [][Swallows => current_token_index = Top.from]_vars
    /\ [](tokens \in IllFormed => ~Accepted)

\* the return statement of S6, the parameter list of S6
ReturnOfMain == Child(Child(Child(Child(parseTree, 4), 7), 2), 1)
ParametersOfMain == Child(Child(parseTree, 4), 5)

\* C23: when the rule of compileOptional, or of the last round of
\* compileMultiple, raises without having consumed a token, no element has
\* been added and the token index is as before.  So `return ;` gives a
\* returnStatement of keyword return and symbol ; only, an empty parameter
\* list a parameterList without children, a call without arguments no
\* expression node.
C23_OptionalEmitsNothing ==
    /\ [][(Swallows /\ Top.kind \in {"optional", "multiple"}
           /\ current_token_index = Top.from) =>
             /\ Len(Top.kids) = Top.had
             /\ current_token_index' = Top.from]_vars
    /\ []((pc # "jack" /\ tokens = MainClass) =>
             /\ ParametersOfMain = Node("parameterList", "", <<>>)
             /\ ReturnOfMain.tag = "returnStatement"
             /\ ReturnOfMain.kids = << Leaf(KW("return")), Leaf(SY(";")) >>)
    /\ []((pc # "jack"
           /\ tokens = DoClass(<<ID("Main"), SY("."), ID("run"), SY("("),
                                 SY(")")>>)) =>
             /\ FirstStatement.tag = "doStatement"
             /\ \A n \in 1..Len(FirstStatement.kids) :
                   FirstStatement.kids[n].tag \in TokenTags)

\* C24: when the tokens of the file are not a well-formed class the run
\* ends in failure and write_XML prints no tree, complete or partial.
C24_SyntaxErrorAborts ==
    (tokens \in IllFormed /\ pc # "jack") => pc = "jack_crashed"

RECURSIVE StackLeaves(_)
\* the tokens carried by the leaves of the tree under construction: the
\* elements of the n calls in progress, outermost first
StackLeaves(n) ==
    IF n = 0 THEN <<>> ELSE StackLeaves(n - 1) \o Leaves(stack[n].kids)

\* C29: at every point of the parse the leaves of the tree, in document
\* order, are the tokens of indices 0 .. current_token_index - 1, each
\* with its kind and lexeme; the tree handed to write_XML has these leaves.
C29_LeavesMirrorTokens ==
    /\ pc \in {"jack", "jack_done", "jack_crashed"} =>
          StackLeaves(Len(stack)) = SubSeq(tokens, 1, current_token_index)
    /\ (pc \in {"jack_done", "jack_crashed"} /\ parseTree # NoTree) =>
          Leaves(<<parseTree>>) = SubSeq(tokens, 1, current_token_index)

\* a rule has raised after tokens were consumed and leaves added, and the
\* exception is on its way out
C29_Witness ==
    /\ pc = "jack" /\ exc = "ParseException"
    /\ current_token_index >= 14
    /\ Len(stack) > 3

\* C30: the engine never reads a token at an index >= len(tokens): no
\* parse ends with an IndexError.
C30_CursorInRange == exc # "IndexError"

----------------------------------------------------------------------------
(* The Jack tokenizer (projects/10/SyntaxAnalyser.py, class Tokenizer).    *)
(* A line is a string; Char(s, i) is its i-th character, from 1.           *)

Char(s, i) == SubSeq(s, i, i)

\* s[a:b], a and b counted from 0 as in the source
Slice(s, a, b) == SubSeq(s, a + 1, IF b < Len(s) THEN b ELSE Len(s))

\* s.split(c)[0]
Before(s, c) ==
    LET at == {i \in 1..Len(s) : Char(s, i) = c}
    IN  IF at = {} THEN s
        ELSE SubSeq(s, 1, (CHOOSE i \in at : \A j \in at : i <= j) - 1)

\* s.rstrip(c) for one character c
rstrip(s, c) ==
    LET ends == {k \in 0..Len(s) : \A j \in (k + 1)..Len(s) : Char(s, j) = c}
    IN  SubSeq(s, 1, CHOOSE k \in ends : \A j \in ends : k <= j)

DigitChars == {Char("0123456789", i) : i \in 1..10}

\* s.isnumeric()
isnumeric(s) == Len(s) > 0 /\ \A i \in 1..Len(s) : Char(s, i) \in DigitChars

keyword_list ==
    <<"class", "constructor", "function", "method", "field", "static", "var",
      "int", "char", "boolean", "void", "true", "false", "null", "this",
      "let", "do", "if", "else", "while", "return">>

symbol_list ==
    {"{", "}", "(", ")", "[", "]", ".", ",", ";", "+", "-", "*", "/", "&",
     "|", "<", ">", "=", "~"}

\* self.lines[self.curr_line]
current_line == lines[curr_line + 1]
current_char == Char(current_line, curr_char + 1)
remaining_str == Slice(current_line, curr_char, Len(current_line))

hasMoreTokens == curr_line < Len(lines)

\* the keywords found at the current position, by their place in the list
KeywordsHere ==
    {n \in 1..Len(keyword_list) :
        Slice(current_line, curr_char, curr_char + Len(keyword_list[n]))
            = keyword_list[n]}

\* the first keyword of keyword_list found at the current position
key_word ==
    keyword_list[CHOOSE n \in KeywordsHere : \A m \in KeywordsHere : n <= m]

\* "None" where the source returns None
token_type ==
    LET whitespace_split == Before(remaining_str, " ")
        box_split ==
            rstrip(rstrip(rstrip(Before(Before(whitespace_split, "["), "("),
                                 ";"), "]"), ")")
    IN  IF KeywordsHere # {} THEN "keyword"
        ELSE IF current_char \in symbol_list THEN "symbol"
        ELSE IF current_char = "\"" THEN "stringConstant"
        ELSE IF isnumeric(box_split) \/ isnumeric(whitespace_split)
        THEN "intConstant"
        ELSE IF current_char = " " THEN "None"
        ELSE IF ~isnumeric(current_char) THEN "identifier"
        ELSE "None"

RECURSIVE TrimTrailing(_, _, _)
\* the loop of identifier() from its i-th round on
TrimTrailing(untrimmed_str, trimmed_str, i) ==
    IF i >= Len(untrimmed_str) THEN trimmed_str
    ELSE LET c == Char(untrimmed_str, Len(untrimmed_str) - i + 1)
         IN  IF c \in symbol_list
             THEN TrimTrailing(untrimmed_str, rstrip(trimmed_str, c), i + 1)
             ELSE trimmed_str

identifier ==
    LET untrimmed_str == Before(remaining_str, " ")
    IN  Before(Before(TrimTrailing(untrimmed_str, untrimmed_str, 1), "."), "[")

int_val == rstrip(rstrip(rstrip(Before(remaining_str, " "), ";"), "]"), ")")

\* remaining_str.split('"')[1]; the current character is the first quote
string_val == Before(Tail(remaining_str), "\"")

\* the value tokenize() gives the token of the current position
TokenValue ==
    CASE token_type = "keyword" -> key_word
      [] token_type = "symbol" -> current_char
      [] token_type = "intConstant" -> int_val
      [] token_type = "stringConstant" -> string_val
      [] token_type = "identifier" -> identifier

\* advance(num_chars): curr_line and curr_char afterwards
Advanced(num_chars) ==
    IF curr_char + num_chars >= Len(current_line)
    THEN [line |-> curr_line + 1, char |-> 0]
    ELSE [line |-> curr_line, char |-> curr_char + num_chars]

TokUnchanged ==
    UNCHANGED <<current_token_index, stack, exc, parseTree, DEBUG,
                nobootstrap, dir, ram0, file_data, line_index, labelCounter,
                file_name, out, file_index, cmds, rom, A, D, PC, ram, steps,
                cur, done>>

\* Tokenizer(lines): with DEBUG the first line is printed
NewTokenizer ==
    /\ pc = "tokenizer"
    /\ pc' = IF DEBUG /\ lines = <<>> THEN "tok_crashed" ELSE "tok"
    /\ UNCHANGED <<lines, tokens, curr_line, curr_char>>
    /\ TokUnchanged

\* one round of the loop of tokenize() that appends a token
AppendToken ==
    /\ pc = "tok" /\ hasMoreTokens
    /\ token_type # "None"
    /\ tokens' = Append(tokens, Token(token_type, TokenValue))
    /\ LET to == IF Len(TokenValue) = 0 THEN Advanced(1)
                 ELSE IF token_type = "stringConstant"
                 THEN Advanced(Len(TokenValue) + 2)
                 ELSE Advanced(Len(TokenValue))
       IN  curr_line' = to.line /\ curr_char' = to.char
    /\ UNCHANGED <<lines, pc>>
    /\ TokUnchanged

\* one round of the loop of tokenize() with no token type: advance(1)
SkipChar ==
    /\ pc = "tok" /\ hasMoreTokens
    /\ token_type = "None"
    /\ curr_line' = Advanced(1).line /\ curr_char' = Advanced(1).char
    /\ UNCHANGED <<lines, tokens, pc>>
    /\ TokUnchanged

\* tokenize() returns tokens
tokenize ==
    /\ pc = "tok" /\ ~hasMoreTokens
    /\ pc' = "tok_done"
    /\ UNCHANGED <<lines, tokens, curr_line, curr_char>>
    /\ TokUnchanged

\* cleaned lines of Jack files: not empty, no blank at either end, no
\* comment
SourceSample ==
    { <<"class Main {", "function void main() {", "return;", "}", "}">>,
      <<"class Main { function void main() { return; } }">>,
      <<"static boolean test;", "field int x, y;">>,
      <<"let x = 1 + 2;">>,
      <<"let x = 1+2;">>,
      <<"let x = a + b;">>,
      <<"let a[1] = x;">>,
      <<"let a[i] = a[ 2 ];">>,
      <<"let s = \"a b\";">>,
      <<"let s = \"\";">>,
      <<"do Main.run(1, 2);">>,
      <<"do Main.run( 1 , 2 ) ;">>,
      <<"do run();">>,
      <<"do foo(x);">>,
      <<"do game.dispose();">>,
      <<"let double = 1;">>,
      <<"let x = interval;">>,
      <<"var int done;">>,
      <<"var Main classy;">>,
      <<"let x_1 = y2;">>,
      <<"while (i < 10) {">>,
      <<"if (~(x = 0)) {", "} else {">>,
      <<"return this;">>,
      <<"return -x;">>,
      <<>> }

TokInit ==
    /\ lines \in SourceSample
    /\ DEBUG \in (IF lines = <<>> THEN BOOLEAN ELSE {TRUE})
    /\ pc = "tokenizer"
    /\ tokens = <<>>
    /\ curr_line = 0 /\ curr_char = 0
    /\ current_token_index = 0
    /\ stack = <<>>
    /\ exc = "none"
    /\ parseTree = NoTree
    /\ out = <<>>
    /\ rom = <<>>
    /\ nobootstrap = "None"
    /\ dir = [isdir |-> FALSE, files |-> <<>>]
    /\ ram0 = EmptyRam
    /\ file_data = <<>>
    /\ line_index = 0
    /\ labelCounter = 0
    /\ file_name = <<>>
    /\ file_index = 1
    /\ cmds = <<>>
    /\ A = 0 /\ D = 0 /\ PC = 0
    /\ ram = EmptyRam
    /\ steps = 0
    /\ cur = [k |-> 0, ram |-> EmptyRam, log |-> <<>>]
    /\ done = <<>>

TokNext == NewTokenizer \/ AppendToken \/ SkipChar \/ tokenize

TokSpec == TokInit /\ [][TokNext]_vars

----------------------------------------------------------------------------
(* Properties of the tokenizer *)

\* the characters of identifiers: letters, digits, underscore
IdentChars ==
    LET all == "abcdefghijklmnopqrstuvwxyzABCDEFGHIJKLMNOPQRSTUVWXYZ_0123456789"
    IN  {Char(all, i) : i \in 1..Len(all)}

Keywords == {keyword_list[n] : n \in 1..Len(keyword_list)}

\* the word at the current position: the characters from there up to the
\* first that cannot continue an identifier, or to the end of the line
WordHere ==
    LET stops == {i \in (curr_char + 1)..Len(current_line) :
                     Char(current_line, i) \notin IdentChars}
    IN  SubSeq(current_line, curr_char + 1,
               IF stops = {} THEN Len(current_line)
               ELSE (CHOOSE i \in stops : \A j \in stops : i <= j) - 1)

\* the current position is the first character of a word
AtWordStart ==
    /\ current_char \in IdentChars \ DigitChars
    /\ curr_char = 0 \/ Char(current_line, curr_char) \notin IdentChars

\* C25: a keyword token is appended only when the keyword is the whole
\* word at the current position (what follows it cannot continue an
\* identifier, or the line ends); at the start of a word that is not a
\* keyword, one identifier token holding the whole word is appended.
C25_KeywordMaximalMunch ==
    [][(pc = "tok" /\ hasMoreTokens /\ Len(tokens') = Len(tokens) + 1) =>
          LET t == tokens'[Len(tokens')]
          IN  /\ t.type = "keyword" => t.value = WordHere
              /\ (AtWordStart /\ WordHere \notin Keywords) =>
                    t = Token("identifier", WordHere)]_vars

\* the lexeme of a token as it stands in the source
Lexeme(t) ==
    IF t.type = "stringConstant" THEN "\"" \o t.value \o "\"" ELSE t.value

RECURSIVE Lexemes(_)
\* the lexemes of the first n tokens, one after the other
Lexemes(n) == IF n = 0 THEN "" ELSE Lexemes(n - 1) \o Lexeme(tokens[n])

\* the i-th character of the line is inside a string constant
InString(line, i) ==
    Cardinality({j \in 1..(i - 1) : Char(line, j) = "\""}) % 2 = 1

RECURSIVE Squeezed(_, _)
\* the first n characters of a line without the blanks outside string
\* constants
Squeezed(line, n) ==
    IF n = 0 THEN ""
    ELSE Squeezed(line, n - 1)
         \o (IF Char(line, n) = " " /\ ~InString(line, n) THEN ""
             ELSE Char(line, n))

RECURSIVE SourceText(_)
\* the first n lines without whitespace outside string constants
SourceText(n) ==
    IF n = 0 THEN ""
    ELSE SourceText(n - 1) \o Squeezed(lines[n], Len(lines[n]))

\* C26: the lexemes of the tokens tokenize() returns, string constants in
\* their quotes, make up the source without its whitespace outside string
\* constants, and every identifier lexeme is made of letters, digits and
\* underscores only.
C26_LexingRoundTrip ==
    pc = "tok_done" =>
        /\ Lexemes(Len(tokens)) = SourceText(Len(lines))
        /\ \A n \in 1..Len(tokens) :
              tokens[n].type = "identifier" =>
                  \A i \in 1..Len(tokens[n].value) :
                      Char(tokens[n].value, i) \in IdentChars

----------------------------------------------------------------------------
(* Properties of the symbol passes of the assembler *)

\* the lines of the first reference "@symbol" to each symbol that is
\* neither a number, predefined, nor declared as a "(label)" anywhere
FirstReferences(data) ==
    LET declared == {LabelSymbol(data[i]) :
                        i \in {j \in 1..Len(data) : IsLabelLine(data[j])}}
        IsVariableRef(i) ==
            /\ IsALine(data[i])
            /\ ~IsNumeric(Tail(data[i]))
            /\ ~IsPredefined(Tail(data[i]))
            /\ Tail(data[i]) \notin declared
    IN  {i \in 1..Len(data) :
            IsVariableRef(i) /\ \A j \in 1..(i - 1) : data[j] # data[i]}

\* C28: the k-th distinct variable symbol of the program, in the order of
\* first reference, is given RAM address 16 + (k - 1), whatever the values
\* of the labels are; every label is given the number of the next real
\* instruction.
C28_VariableAllocation ==
    pc = "asm_done" =>
        LET data  == first_pass(clean_data(out))
            table == SymbolTable(data)
            refs  == FirstReferences(data)
        IN  /\ \A i \in refs :
                  table[Tail(data[i])] =
                      16 + Cardinality({j \in refs : j < i})
            /\ \A i \in 1..Len(data) :
                  IsLabelLine(data[i]) =>
                      \E j \in i..Len(data) :
                          /\ IsLabelLine(data[j])
                          /\ LabelSymbol(data[j]) = LabelSymbol(data[i])
                          /\ table[LabelSymbol(data[i])] =
                                 running_line_num(data, j)

----------------------------------------------------------------------------
(* The VM translator of project 07 (projects/07/VMTranslator.py): one      *)
(* input file, push, pop and arithmetic commands only.  Its Parser         *)
(* (cleanLines, trimLine, hasMoreLines, advance) and its getArithmeticAsm, *)
(* getPushAsm and getPopAsm are those of project 08 line for line, with   *)
(* CodeWriter.file_location (kept in file_name) naming the statics.        *)

\* Parser.commandType of project 07; "raise" when the exception is raised
P07_commandType(line) ==
    LET command == Fields(line)[1]
    IN  IF line = <<>> \/ Len(command) # 1 THEN "raise"
        ELSE IF command[1] \in {"pop", "push", "return"} THEN command[1]
        ELSE IF command[1] \in ArithmeticCommandTypes THEN "arithmetic"
        ELSE "raise"

\* the command ends the run with an exception
P07_Raises(line) ==
    \/ P07_commandType(line) = "raise"
    \/ P07_commandType(line) \in {"push", "pop"} /\ Raises(line)

\* what the loop of main leaves alone
P07_Unchanged ==
    UNCHANGED <<DEBUG, nobootstrap, dir, ram0, file_data, lines, file_name,
                file_index, cmds, rom, A, D, PC, ram, steps, cur, done,
                tokens, current_token_index, stack, exc, parseTree,
                curr_line, curr_char>>

\* "parser.advance()" followed by the branch of main for the command type
P07_Advance(type) ==
    /\ pc = "loop07"
    /\ hasMoreLines(lines, line_index)
    /\ ~P07_Raises(NextLine)
    /\ P07_commandType(NextLine) = type
    /\ line_index' = line_index + 1
    /\ P07_Unchanged

\* CodeWriter.writeArithmetic: the counter is incremented, then the lines
\* are built and written
P07_writeArithmetic ==
    /\ P07_Advance("arithmetic")
    /\ labelCounter' = labelCounter + 1
    /\ out' = out \o getArithmeticAsm(Fields(NextLine)[1][1],
                                      labelCounter + 1)
    /\ pc' = pc

\* CodeWriter.writePushPop
P07_writePushPop ==
    /\ \E type \in {"push", "pop"} :
         /\ P07_Advance(type)
         /\ out' = out \o
               (IF type = "push"
                THEN getPushAsm(Fields(NextLine)[2][1],
                                ToInt(Fields(NextLine)[3]), file_name)
                ELSE getPopAsm(Fields(NextLine)[2][1],
                               ToInt(Fields(NextLine)[3]), file_name))
    /\ UNCHANGED <<labelCounter, pc>>

\* a "return" line: C_RETURN matches neither branch of main
P07_SkipReturn ==
    /\ P07_Advance("return")
    /\ UNCHANGED <<labelCounter, out, pc>>

\* an exception of commandType, getSegmentType, int() or getPopAsm
P07_Fail ==
    /\ pc = "loop07"
    /\ hasMoreLines(lines, line_index)
    /\ P07_Raises(NextLine)
    /\ line_index' = line_index + 1
    /\ pc' = "failed07"
    /\ UNCHANGED <<labelCounter, out>>
    /\ P07_Unchanged

\* codeWriter.close()
P07_Close ==
    /\ pc = "loop07"
    /\ ~hasMoreLines(lines, line_index)
    /\ pc' = "closed07"
    /\ UNCHANGED <<line_index, labelCounter, out>>
    /\ P07_Unchanged

\* lines of the .vm files given to project 07
P07_LineSample ==
    { PushPop("push", "constant", 7), PushPop("pop", "local", 0),
      PushPop("push", "static", 1), PushPop("pop", "constant", 0),
      <<"add">>, <<"eq">>, <<"lt">>, <<"neg">>, <<"return">>,
      <<"frobnicate">>, Blank, <<"//", " ", "note">> }

MaxFile07 == 3

RECURSIVE P07_Files(_)
P07_Files(n) ==
    IF n = 0 THEN {<<>>}
    ELSE P07_Files(n - 1)
         \cup { Append(f, l) : f \in P07_Files(n - 1), l \in P07_LineSample }

FooAsm == <<"F", "o", "o", ".", "a", "s", "m">>

\* the state after "parser = Parser(...)" and "codeWriter = CodeWriter(...)";
\* every file starts with the line that advance() steps over
P07_Init ==
    /\ \E f \in P07_Files(MaxFile07) :
          lines = cleanLines(<< <<"//", " ", "Foo">>, Blank >> \o f)
    /\ line_index = 0
    /\ labelCounter = 0
    /\ file_name = FooAsm
    /\ out = <<>>
    /\ pc = "loop07"
    /\ DEBUG = TRUE
    /\ nobootstrap = "True"
    /\ dir = [isdir |-> FALSE, files |-> <<>>]
    /\ ram0 = EmptyRam
    /\ file_data = <<>>
    /\ file_index = 1
    /\ cmds = <<>>
    /\ rom = <<>>
    /\ A = 0 /\ D = 0 /\ PC = 0
    /\ ram = EmptyRam
    /\ steps = 0
    /\ cur = [k |-> 0, ram |-> EmptyRam, log |-> <<>>]
    /\ done = <<>>
    /\ tokens = <<>>
    /\ current_token_index = 0
    /\ curr_line = 0 /\ curr_char = 0
    /\ stack = <<>>
    /\ exc = "none"
    /\ parseTree = NoTree

P07_Next ==
    \/ P07_writeArithmetic
    \/ P07_writePushPop
    \/ P07_SkipReturn
    \/ P07_Fail
    \/ P07_Close

P07_Spec == P07_Init /\ [][P07_Next]_vars

----------------------------------------------------------------------------
(* Properties of the label counter *)

\* main translates a command in this step: the parser advances to a
\* non-empty line, its assembly is written and the loop goes on
TranslatesCommand ==
    /\ pc \in {"loop", "loop07"}
    /\ pc' = pc
    /\ line_index' = line_index + 1
    /\ lines' = lines
    /\ NextLine # <<>>
    /\ Len(out') > Len(out)

\* the line holds a label minted from counter value lc
BuiltFrom(l, lc) ==
    \A i \in 1..Len(l) :
        l[i] \in {"COND_JUMP", "COND_JUMP_END", "RETURN"} =>
            /\ Len(l) > i
            /\ l[i + 1] = "."
            /\ SubSeq(l, i + 2, Len(l)) \in
                  {ToStr(lc), ToStr(lc) \o <<")">>}

\* C27: the label counter never decreases and is not reset between files;
\* it is incremented exactly once by every translated command, whatever
\* its type, and by nothing else; the labels a command emits are built
\* from the counter value after the increment.
C27_LabelCounterDiscipline ==
    [][/\ labelCounter' >= labelCounter
       /\ TranslatesCommand => labelCounter' = labelCounter + 1
       /\ (pc' \in {"loop", "loop07", "files", "closed", "closed07"}
           /\ labelCounter' # labelCounter) => TranslatesCommand
       /\ (Len(out') > Len(out) /\ pc \in {"loop", "loop07"}) =>
             \A k \in (Len(out) + 1)..Len(out') :
                 BuiltFrom(out'[k], labelCounter')]_vars


============================================================================
